---- MODULE Spec2Model ----
(***************************************************************************)
(* A model of ai-commit-guard (index.js, the hook-marker variant): the     *)
(* review run, the deadline race around the backend call, the verdict      *)
(* branch, the cache, the ignore engine and the content redactor.          *)
(*                                                                         *)
(* Text is a sequence of characters.  A character is a one-letter string;  *)
(* the characters that cannot be written inside a TLA+ string literal are  *)
(* named: DQ, SQ, BT are the three quote characters, SP, NL, TAB the       *)
(* whitespace characters.                                                  *)
(***************************************************************************)
EXTENDS Integers, Sequences, FiniteSets, TLC

VARIABLES
    \* ---- content redactor (filterSensitiveContent) ----
    content,        \* the text handed to filterSensitiveContent
    filtered,       \* filterSensitiveContent(content)
    refiltered,     \* filterSensitiveContent(filtered)
    redactPc,       \* "idle" | "input" | "once" | "twice"
    \* ---- ignore engine (shouldIgnoreFile) ----
    argFilePath,    \* the path handed to shouldIgnoreFile
    argPatterns,    \* the pattern list handed to shouldIgnoreFile
    ignored,        \* what the call gave: "true" | "false" | "SyntaxError"
    ignorePc,       \* "idle" | "input" | "called"
    \* ---- what outlives a process ----
    cache,          \* .ai-guard-cache: cache key |-> the file <key>.json
    now,            \* Date.now(), in ms since the first state
    marker,         \* .ai-guard-result: "none" | "SUCCESS" | "TIMEOUT" | "ERROR"
    \* ---- one call of getCache ----
    argKey,         \* the key handed to getCache
    got,            \* what getCache returned
    cachePc,        \* "idle" | "ready" | "read"
    \* ---- one call of callWithTimeout ----
    timeoutMs,      \* the deadline handed to callWithTimeout, 0 before the call
    timer,          \* the timer: "none" | "armed" | "cleared" | "fired"
    call,           \* the promise of apiCall(): "none" | "pending" | "fulfilled" | "rejected"
    callValue,      \* its runResult, or the message of its error
    promise,        \* the promise callWithTimeout returns: "none" | "pending" | "resolved" | "rejected"
    promiseValue,   \* its runResult, or the message of its error
    \* ---- the process of one review run ----
    pc,             \* "none" | "awaiting" | "exited"
    runs,           \* processes started so far
    env,            \* process.env and what the local endpoint answers the probe
    listing,        \* what version control lists as staged
    ignoreFile,     \* the lines of .ai-guard-ignore
    rulesFile,      \* the text of .code-rules.md, Null if there is none
    thisApiKey,         \* this.apiKey
    thisProvider,       \* this.provider
    thisTimeout,        \* this.timeout
    thisMaxFileSize,    \* this.maxFileSize
    thisModel,          \* this.model
    stagedFiles,    \* what getStagedFiles returned
    runChanges,        \* what getChanges returned
    cacheKey,       \* what getCacheKey returned
    runResult,         \* the verdict text, Null while there is none
    fromCache,      \* the verdict text came from getCache
    requests,       \* the requests sent to a backend, in order
    listed,         \* version control was asked for the staged files
    cacheReads,     \* calls of getCache
    cacheWrites,    \* calls of setCache
    stored,         \* the argument of _storeReviewResult, "none" if not called
    outcome,        \* what the run reported
    message,        \* the rejection text rendered to the operator
    exitCode,       \* the argument of process.exit, -1 while running
    \* ---- one call of a function of the program ----
    fnArgs,         \* the arguments of the call
    fnResult,       \* what the call returned, Null before it returns
    fnPc,           \* "idle" | "ready" | "done"
    \* ---- the commit-msg step (--commit-msg <file>) ----
    commitMsg,      \* the text of the commit message file, Null if there is none
    msgExit,        \* the argument of process.exit of the last step, -1 before
    steps           \* commit-msg steps run so far

redactVars == <<content, filtered, refiltered, redactPc>>
ignoreVars == <<argFilePath, argPatterns, ignored, ignorePc>>
diskVars   == <<cache, now, marker>>
cacheVars  == <<argKey, got, cachePc>>
promiseVars == <<timeoutMs, timer, call, callValue, promise, promiseValue>>

inputVars  == <<env, listing, ignoreFile, rulesFile>>
guardVars  == <<thisApiKey, thisProvider, thisTimeout, thisMaxFileSize, thisModel>>
workVars   == <<stagedFiles, runChanges, cacheKey, runResult, fromCache>>
traceVars  == <<requests, listed, cacheReads, cacheWrites>>
endVars    == <<stored, outcome, message, exitCode>>
runVars    == <<pc, runs, inputVars, guardVars, workVars, traceVars, endVars>>
fnVars     == <<fnArgs, fnResult, fnPc>>
commitVars == <<commitMsg, msgExit, steps>>

vars == <<redactVars, ignoreVars, diskVars, cacheVars, promiseVars, runVars, fnVars,
          commitVars>>

\* what an operation of one part leaves alone
notRedact  == <<ignoreVars, diskVars, cacheVars, promiseVars, runVars, fnVars, commitVars>>
notIgnore  == <<redactVars, diskVars, cacheVars, promiseVars, runVars, fnVars, commitVars>>
notCache   == <<redactVars, ignoreVars, promiseVars, runVars, fnVars, commitVars>>
notPromise == <<redactVars, ignoreVars, diskVars, cacheVars, runVars, fnVars, commitVars>>
notRun     == <<redactVars, ignoreVars, cacheVars, fnVars, commitVars>>
notFn      == <<redactVars, ignoreVars, diskVars, cacheVars, promiseVars, runVars,
                commitVars>>
notCommit  == <<redactVars, ignoreVars, cache, now, cacheVars, promiseVars, runVars, fnVars>>

-----------------------------------------------------------------------------
(* Characters and strings *)

DQ == "DQ"
SQ == "SQ"
BT == "BT"
SP == "SP"
NL == "NL"
TAB == "TAB"

LowerLetters == <<"a","b","c","d","e","f","g","h","i","j","k","l","m",
                  "n","o","p","q","r","s","t","u","v","w","x","y","z">>
UpperLetters == <<"A","B","C","D","E","F","G","H","I","J","K","L","M",
                  "N","O","P","Q","R","S","T","U","V","W","X","Y","Z">>
Digits == {"0","1","2","3","4","5","6","7","8","9"}

Range(f) == {f[i] : i \in DOMAIN f}

\* [a-zA-Z0-9]
Alnum == Range(LowerLetters) \cup Range(UpperLetters) \cup Digits
\* ['"`]
Quotes == {SQ, DQ, BT}
\* \s
Whitespace == {SP, NL, TAB}

\* String.prototype.toLowerCase, one character
LowerChar(c) ==
    IF c \in Range(UpperLetters)
      THEN LowerLetters[CHOOSE i \in DOMAIN UpperLetters : UpperLetters[i] = c]
      ELSE c

\* String.prototype.toLowerCase
toLowerCase(s) == [i \in DOMAIN s |-> LowerChar(s[i])]

\* s has t at position i (1-based)
HasAt(s, i, t) ==
    /\ i >= 1
    /\ i + Len(t) - 1 <= Len(s)
    /\ \A k \in 1..Len(t) : s[i + k - 1] = t[k]

\* s has t at position i, ignoring case (the regex flag i)
HasAtCI(s, i, t) == HasAt(toLowerCase(s), i, toLowerCase(t))

\* String.prototype.includes
includes(s, t) == \E i \in 1..(Len(s) - Len(t) + 1) : HasAt(s, i, t)

\* String.prototype.startsWith
startsWith(s, t) == HasAt(s, 1, t)

\* the length of the longest run of characters of class C that starts at i
RunLen(s, i, C) ==
    CHOOSE n \in 0..(Len(s) - i + 1) :
        /\ \A k \in 0..(n - 1) : s[i + k] \in C
        /\ (i + n > Len(s) \/ s[i + n] \notin C)

Rep(c, n) == [i \in 1..n |-> c]

-----------------------------------------------------------------------------
(* SENSITIVE_KEYWORDS *)

KwPassword   == <<"p","a","s","s","w","o","r","d">>
KwSecret     == <<"s","e","c","r","e","t">>
KwToken      == <<"t","o","k","e","n">>
KwKey        == <<"k","e","y">>
KwPrivate    == <<"p","r","i","v","a","t","e">>
KwCredential == <<"c","r","e","d","e","n","t","i","a","l">>

SENSITIVE_KEYWORDS ==
    {KwPassword, KwSecret, KwToken, KwKey, KwPrivate, KwCredential}

-----------------------------------------------------------------------------
(* filterSensitiveContent: five global regex substitutions, in order *)

\* the {32,} of the first two expressions
MinTokenLen == 32

SkPrefix == <<"s","k","-">>

ApiKeyHidden   == <<"[","A","P","I","_","K","E","Y","_","H","I","D","D","E","N","]">>
SecretHidden   == <<"[","S","E","C","R","E","T","_","H","I","D","D","E","N","]">>
PasswordHidden == <<"[","P","A","S","S","W","O","R","D","_","H","I","D","D","E","N","]">>
TokenHidden    == <<"[","T","O","K","E","N","_","H","I","D","D","E","N","]">>

\* /(['"`])sk-[a-zA-Z0-9]{32,}(['"`])/ : length of the match at i, 0 if none
MatchApiKey(s, i) ==
    IF s[i] \in Quotes /\ HasAt(s, i + 1, SkPrefix)
      THEN LET n == RunLen(s, i + 4, Alnum)
           IN  IF n >= MinTokenLen /\ i + 4 + n <= Len(s) /\ s[i + 4 + n] \in Quotes
                 THEN n + 5
                 ELSE 0
      ELSE 0

\* /(['"`])[a-zA-Z0-9]{32,}(['"`])/ : length of the match at i, 0 if none
MatchLongToken(s, i) ==
    IF s[i] \in Quotes
      THEN LET n == RunLen(s, i + 1, Alnum)
           IN  IF n >= MinTokenLen /\ i + 1 + n <= Len(s) /\ s[i + 1 + n] \in Quotes
                 THEN n + 2
                 ELSE 0
      ELSE 0

\* /<word>\s*[:=]\s*['"`][^'"`]+['"`]/i with the word at i: length of the
\* match, 0 if none
MatchAssignment(s, i, word) ==
    IF HasAtCI(s, i, word)
      THEN LET a  == i + Len(word)
               w1 == RunLen(s, a, Whitespace)
               b  == a + w1
           IN  IF b <= Len(s) /\ s[b] \in {":", "="}
                 THEN LET w2 == RunLen(s, b + 1, Whitespace)
                          q  == b + 1 + w2
                      IN  IF q <= Len(s) /\ s[q] \in Quotes
                            THEN LET n == RunLen(s, q + 1, (Range(s) \ Quotes))
                                 IN  IF n >= 1 /\ q + 1 + n <= Len(s)
                                       THEN (q + 1 + n) - i + 1
                                       ELSE 0
                            ELSE 0
                 ELSE 0
      ELSE 0

\* the five expressions, in the order filterSensitiveContent applies them
Rules == <<"apikey", "longtoken", "password", "token", "secretkey">>

\* length of the match of a rule at position i of s, 0 if none
MatchLen(rule, s, i) ==
    CASE rule = "apikey"    -> MatchApiKey(s, i)
      [] rule = "longtoken" -> MatchLongToken(s, i)
      [] rule = "password"  -> MatchAssignment(s, i, KwPassword)
      [] rule = "token"     -> MatchAssignment(s, i, KwToken)
      [] rule = "secretkey" ->
           IF MatchAssignment(s, i, KwSecret) > 0
             THEN MatchAssignment(s, i, KwSecret)
             ELSE MatchAssignment(s, i, KwKey)

\* the replacement text for the match of length n at position i
Replacement(rule, s, i, n) ==
    LET m == SubSeq(s, i, i + n - 1)
    IN  CASE rule = "apikey" ->
               <<m[1]>> \o ApiKeyHidden \o <<m[n]>>
          [] rule = "longtoken" ->
               IF \E kw \in SENSITIVE_KEYWORDS : includes(toLowerCase(m), kw)
                 THEN <<m[1]>> \o SecretHidden \o <<m[n]>>
                 ELSE m
          [] rule = "password" ->
               KwPassword \o <<":", SP, DQ>> \o PasswordHidden \o <<DQ>>
          [] rule = "token" ->
               KwToken \o <<":", SP, DQ>> \o TokenHidden \o <<DQ>>
          [] rule = "secretkey" ->
               \* $1 is the word as it was written
               (IF MatchAssignment(s, i, KwSecret) > 0
                  THEN SubSeq(s, i, i + Len(KwSecret) - 1)
                  ELSE SubSeq(s, i, i + Len(KwKey) - 1))
               \o <<":", SP, DQ>> \o SecretHidden \o <<DQ>>

\* String.prototype.replace with a global expression: leftmost matches,
\* left to right, the scan resuming after each match
RECURSIVE ReplaceAllFrom(_, _, _, _)
ReplaceAllFrom(rule, s, i, acc) ==
    IF i > Len(s)
      THEN acc
      ELSE LET n == MatchLen(rule, s, i)
           IN  IF n > 0
                 THEN ReplaceAllFrom(rule, s, i + n, acc \o Replacement(rule, s, i, n))
                 ELSE ReplaceAllFrom(rule, s, i + 1, Append(acc, s[i]))

ReplaceAll(rule, s) == ReplaceAllFrom(rule, s, 1, <<>>)

filterSensitiveContent(c) ==
    ReplaceAll("secretkey",
      ReplaceAll("token",
        ReplaceAll("password",
          ReplaceAll("longtoken",
            ReplaceAll("apikey", c)))))

-----------------------------------------------------------------------------
(* The redactor on its own: texts assembled from pieces of staged diffs *)

\* how many pieces a text is assembled from
MaxPieces == 2

Str_apiKey    == <<"a","p","i","K","e","y">>
Str_publicKey == <<"p","u","b","l","i","c","K","e","y">>
Str_fine      == <<"t","h","i","s","-","i","s","-","f","i","n","e">>
Str_const     == <<"c","o","n","s","t",SP,"x",";",NL>>

RedactPieces ==
    { Str_apiKey \o <<":", SP>>,                                   \* apiKey:
      KwKey \o <<"=">>,                                            \* key=
      <<DQ>> \o SkPrefix \o Rep("a", MinTokenLen) \o <<DQ>>,       \* "sk-a{32}"
      <<SQ>> \o SkPrefix \o Rep("Z", MinTokenLen + 1) \o <<SQ>>,   \* 'sk-Z{33}'
      <<DQ>> \o SkPrefix \o Rep("a", MinTokenLen - 1) \o <<DQ>>,   \* "sk-a{31}"
      SkPrefix \o Rep("b", MinTokenLen) \o <<DQ>>,                 \* sk-b{32}"
      <<DQ>> \o Rep("a", MinTokenLen - 3) \o KwKey \o <<DQ>>,      \* "a{29}key"
      Rep("b", MinTokenLen - 3) \o <<"K","E","Y">> \o <<BT>>,      \* b{29}KEY`
      <<DQ>> \o Rep("7", MinTokenLen) \o <<DQ>>,                   \* "7{32}"
      KwPassword \o <<":", SP, DQ, "a", "b", "c", DQ>>,            \* password: "abc"
      <<"T","O","K","E","N",SP,"=",NL,SQ,"x",SQ>>,                 \* TOKEN =\n'x'
      Str_publicKey \o <<":", SP, DQ>> \o Str_fine \o <<DQ>>,      \* publicKey: "this-is-fine"
      Str_const,                                                   \* const x;\n
      <<DQ, DQ>>,                                                  \* ""
      <<>> }

RECURSIVE Assemble(_)
Assemble(n) ==
    IF n = 0 THEN {<<>>}
    ELSE {a \o b : a \in Assemble(n - 1), b \in RedactPieces}

RedactInputs == Assemble(MaxPieces)

RedactIdle ==
    /\ content = <<>>
    /\ filtered = <<>>
    /\ refiltered = <<>>
    /\ redactPc = "idle"

RedactStart ==
    /\ content \in RedactInputs
    /\ filtered = <<>>
    /\ refiltered = <<>>
    /\ redactPc = "input"

\* getChanges hands one diff to filterSensitiveContent
Filter ==
    /\ redactPc = "input"
    /\ filtered' = filterSensitiveContent(content)
    /\ redactPc' = "once"
    /\ UNCHANGED <<content, refiltered, notRedact>>

\* the redacted text is redacted again
Refilter ==
    /\ redactPc = "once"
    /\ refiltered' = filterSensitiveContent(filtered)
    /\ redactPc' = "twice"
    /\ UNCHANGED <<content, filtered, notRedact>>


-----------------------------------------------------------------------------
(* The ignore engine: loadIgnorePatterns and shouldIgnoreFile *)

\* CONFIG.EXCLUDE_PATTERNS
EXCLUDE_PATTERNS ==
    <<
       <<"d","i","s","t","/","*">>,                                   \* dist/*
       <<"b","u","i","l","d","/","*">>,                               \* build/*
       <<"o","u","t","/","*">>,                                       \* out/*
       <<"t","a","r","g","e","t","/","*">>,                           \* target/*
       <<"b","i","n","/","*">>,                                       \* bin/*
       <<"o","b","j","/","*">>,                                       \* obj/*
       <<"n","o","d","e","_","m","o","d","u","l","e","s","/","*">>,   \* node_modules/*
       <<"v","e","n","d","o","r","/","*">>,                           \* vendor/*
       <<".","v","e","n","v","/","*">>,                               \* .venv/*
       <<"v","e","n","v","/","*">>,                                   \* venv/*
       <<"_","_","p","y","c","a","c","h","e","_","_","/","*">>,       \* __pycache__/*
       <<".","g","i","t","/","*">>,                                   \* .git/*
       <<".","s","v","n","/","*">>,                                   \* .svn/*
       <<".","h","g","/","*">>,                                       \* .hg/*
       <<".","v","s","c","o","d","e","/","*">>,                       \* .vscode/*
       <<".","i","d","e","a","/","*">>,                               \* .idea/*
       <<"*",".","s","w","p">>,                                       \* *.swp
       <<"*",".","s","w","o">>,                                       \* *.swo
       <<"*","~">>,                                                   \* *~
       <<".","D","S","_","S","t","o","r","e">>,                       \* .DS_Store
       <<"T","h","u","m","b","s",".","d","b">>,                       \* Thumbs.db
       <<"d","e","s","k","t","o","p",".","i","n","i">>,               \* desktop.ini
       <<"*",".","m","i","n",".","j","s">>,                           \* *.min.js
       <<"*",".","m","i","n",".","c","s","s">>,                       \* *.min.css
       <<"*",".","b","u","n","d","l","e",".","*">>,                   \* *.bundle.*
       <<"*","-","l","o","c","k",".","j","s","o","n">>,               \* *-lock.json
       <<"*",".","l","o","c","k">>                                    \* *.lock
    >>

\* the patterns DEFAULT_IGNORE_PATTERNS lists before the spread
OwnIgnorePatterns ==
    <<
       <<"*",".","e","n","v","*">>,                                   \* *.env*
       <<"*",".","k","e","y">>,                                       \* *.key
       <<"*",".","p","e","m">>,                                       \* *.pem
       <<"*",".","p","1","2">>,                                       \* *.p12
       <<"*",".","p","f","x">>,                                       \* *.pfx
       <<"*",".","k","e","y","s","t","o","r","e">>,                   \* *.keystore
       <<"*",".","j","k","s">>,                                       \* *.jks
       <<"*","p","a","s","s","w","o","r","d","*">>,                   \* *password*
       <<"*","s","e","c","r","e","t","*">>,                           \* *secret*
       <<"*","t","o","k","e","n","*">>,                               \* *token*
       <<"*","a","p","i","-","k","e","y","*">>,                       \* *api-key*
       <<"*","p","r","i","v","a","t","e","*">>,                       \* *private*
       <<"*","c","r","e","d","e","n","t","i","a","l","*">>,           \* *credential*
       <<"*",".","l","o","g">>,                                       \* *.log
       <<"*",".","t","m","p">>,                                       \* *.tmp
       <<"*",".","t","e","m","p">>,                                   \* *.temp
       <<"*",".","c","a","c","h","e">>,                               \* *.cache
       <<"*",".","p","i","d">>,                                       \* *.pid
       <<"p","a","c","k","a","g","e","-","l","o","c","k",".","j","s","o","n">>, \* package-lock.json
       <<"y","a","r","n",".","l","o","c","k">>,                       \* yarn.lock
       <<"c","o","m","p","o","s","e","r",".","l","o","c","k">>,       \* composer.lock
       <<"G","e","m","f","i","l","e",".","l","o","c","k">>,           \* Gemfile.lock
       <<"P","i","p","f","i","l","e",".","l","o","c","k">>,           \* Pipfile.lock
       <<"*",".","m","i","n",".","j","s">>,                           \* *.min.js
       <<"*",".","m","i","n",".","c","s","s">>,                       \* *.min.css
       <<"*",".","b","u","n","d","l","e",".","*">>,                   \* *.bundle.*
       <<"*","-","l","o","c","k",".","*">>,                           \* *-lock.*
       <<".","a","i","-","g","u","a","r","d","-","c","a","c","h","e","/","*">>, \* .ai-guard-cache/*
       <<".","a","i","-","g","u","a","r","d","-","r","e","s","u","l","t">> \* .ai-guard-result
    >>

\* CONFIG.BINARY_EXTENSIONS
BINARY_EXTENSIONS ==
    {
       <<".","e","x","e">>,                                           \* .exe
       <<".","d","l","l">>,                                           \* .dll
       <<".","s","o">>,                                               \* .so
       <<".","d","y","l","i","b">>,                                   \* .dylib
       <<".","b","i","n">>,                                           \* .bin
       <<".","d","a","t">>,                                           \* .dat
       <<".","d","b">>,                                               \* .db
       <<".","s","q","l","i","t","e">>,                               \* .sqlite
       <<".","j","p","g">>,                                           \* .jpg
       <<".","j","p","e","g">>,                                       \* .jpeg
       <<".","p","n","g">>,                                           \* .png
       <<".","g","i","f">>,                                           \* .gif
       <<".","b","m","p">>,                                           \* .bmp
       <<".","t","i","f","f">>,                                       \* .tiff
       <<".","w","e","b","p">>,                                       \* .webp
       <<".","i","c","o">>,                                           \* .ico
       <<".","m","p","3">>,                                           \* .mp3
       <<".","w","a","v">>,                                           \* .wav
       <<".","f","l","a","c">>,                                       \* .flac
       <<".","a","a","c">>,                                           \* .aac
       <<".","o","g","g">>,                                           \* .ogg
       <<".","m","p","4">>,                                           \* .mp4
       <<".","a","v","i">>,                                           \* .avi
       <<".","m","k","v">>,                                           \* .mkv
       <<".","m","o","v">>,                                           \* .mov
       <<".","p","d","f">>,                                           \* .pdf
       <<".","d","o","c">>,                                           \* .doc
       <<".","d","o","c","x">>,                                       \* .docx
       <<".","x","l","s">>,                                           \* .xls
       <<".","x","l","s","x">>,                                       \* .xlsx
       <<".","p","p","t">>,                                           \* .ppt
       <<".","p","p","t","x">>,                                       \* .pptx
       <<".","z","i","p">>,                                           \* .zip
       <<".","r","a","r">>,                                           \* .rar
       <<".","t","a","r">>,                                           \* .tar
       <<".","g","z">>,                                               \* .gz
       <<".","7","z">>,                                               \* .7z
       <<".","b","z","2">>,                                           \* .bz2
       <<".","t","t","f">>,                                           \* .ttf
       <<".","o","t","f">>,                                           \* .otf
       <<".","w","o","f","f">>,                                       \* .woff
       <<".","w","o","f","f","2">>,                                   \* .woff2
       <<".","e","o","t">>                                            \* .eot
    }

DEFAULT_IGNORE_PATTERNS == OwnIgnorePatterns \o EXCLUDE_PATTERNS

\* the index of the last "/" of p, 0 if there is none
LastSlash(p) ==
    IF \E i \in DOMAIN p : p[i] = "/"
      THEN CHOOSE i \in DOMAIN p :
               p[i] = "/" /\ \A k \in (i + 1)..Len(p) : p[k] # "/"
      ELSE 0

\* path.basename of a path as version control lists it (no trailing "/")
basename(p) == SubSeq(p, LastSlash(p) + 1, Len(p))

\* the characters "." does not match
LineTerminators == {NL}

\* the source of the expression: pattern.replace(/\*/g, '.*') between ^ and $.
\* The expression is kept as the pattern itself: "*" stands for ".*", "."
\* for any character but a line terminator, "(" and ")" for a group, every
\* other character of the modelled patterns for itself.
RECURSIVE RegExpTest(_, _, _, _)
RegExpTest(p, i, s, j) ==
    IF i > Len(p)
      THEN j > Len(s)
      ELSE CASE p[i] = "*" ->
                  \/ RegExpTest(p, i + 1, s, j)
                  \/ /\ j <= Len(s)
                     /\ s[j] \notin LineTerminators
                     /\ RegExpTest(p, i, s, j + 1)
             [] p[i] = "." ->
                  /\ j <= Len(s)
                  /\ s[j] \notin LineTerminators
                  /\ RegExpTest(p, i + 1, s, j + 1)
             [] p[i] \in {"(", ")"} ->
                  RegExpTest(p, i + 1, s, j)
             [] OTHER ->
                  /\ j <= Len(s)
                  /\ s[j] = p[i]
                  /\ RegExpTest(p, i + 1, s, j + 1)

\* the nesting depth of groups after the first i characters of p
RECURSIVE GroupDepth(_, _)
GroupDepth(p, i) ==
    IF i = 0 THEN 0
    ELSE GroupDepth(p, i - 1)
           + (IF p[i] = "(" THEN 1 ELSE IF p[i] = ")" THEN 0 - 1 ELSE 0)

\* new RegExp throws a SyntaxError: a group is not closed or not opened
RegExpSyntaxError(p) ==
    \/ GroupDepth(p, Len(p)) # 0
    \/ \E i \in 1..Len(p) : GroupDepth(p, i) < 0

\* the callback of patterns.some throws for this pattern
PatternThrows(pattern) ==
    includes(pattern, <<"*">>) /\ RegExpSyntaxError(pattern)

\* the callback of patterns.some returns true for this pattern
PatternMatches(pattern, filePath) ==
    IF includes(pattern, <<"*">>)
      THEN /\ ~RegExpSyntaxError(pattern)
           /\ \/ RegExpTest(pattern, 1, filePath, 1)
              \/ RegExpTest(pattern, 1, basename(filePath), 1)
      ELSE \/ includes(filePath, pattern)
           \/ includes(basename(filePath), pattern)

\* the keyword check without toLowerCase
HasSensitiveKeyword_CaseSensitive(filePath) ==
    \E keyword \in SENSITIVE_KEYWORDS :
        \/ includes(filePath, keyword)
        \/ includes(basename(filePath), keyword)

\* the keyword check that shouldIgnoreFile makes first
HasSensitiveKeyword(filePath) ==
    \E keyword \in SENSITIVE_KEYWORDS :
        \/ includes(toLowerCase(filePath), keyword)
        \/ includes(toLowerCase(basename(filePath)), keyword)

\* shouldIgnoreFile ends with a SyntaxError instead of a value: no keyword,
\* and patterns.some reaches a pattern that does not compile
shouldIgnoreFileThrows(filePath, patterns) ==
    /\ ~HasSensitiveKeyword(filePath)
    /\ \E j \in DOMAIN patterns :
          /\ PatternThrows(patterns[j])
          /\ \A k \in 1..(j - 1) : ~PatternMatches(patterns[k], filePath)

\* the value shouldIgnoreFile returns (when it returns)
shouldIgnoreFile(filePath, patterns) ==
    \/ HasSensitiveKeyword(filePath)
    \/ \E j \in DOMAIN patterns :
          /\ PatternMatches(patterns[j], filePath)
          /\ \A k \in 1..(j - 1) : ~PatternThrows(patterns[k])

-----------------------------------------------------------------------------
(* The ignore engine on its own: paths against pattern lists *)

\* how many project-supplied lines the ignore file adds
MaxCustomPatterns == 1

PathDirs ==
    { <<>>,
      <<"s","r","c","/">>,                                 \* src/
      <<"S","e","c","r","e","t","s","/">>,                 \* Secrets/
      <<"g","e","n","/">> }                                \* gen/

PathNames ==
    { <<"B","u","t","t","o","n",".","j","s">>,             \* Button.js
      <<"P","A","S","S","W","O","R","D",".","j","s">>,     \* PASSWORD.js
      <<"a","p","i","-","K","e","y",".","t","x","t">>,     \* api-Key.txt
      <<".","e","n","v",".","p","r","o","d">>,             \* .env.prod
      <<"a","u","t","h","T","o","k","e","n">>,             \* authToken
      <<"P","r","i","v","a","t","e",".","m","d">>,         \* Private.md
      <<"c","r","e","d","e","n","t","i","a","l","s">>,     \* credentials
      <<"m","o","n","k","e","y",".","t","s">>,             \* monkey.ts
      <<"R","E","A","D","M","E",".","m","d">>,             \* README.md
      <<"a",".","l","o","g">>,                             \* a.log
      <<"c","a","t","a","l","o","g">>,                     \* catalog
      <<"x",".","s","n","a","p">> }                        \* x.snap

IgnorePaths == {d \o n : d \in PathDirs, n \in PathNames}

\* lines of the project's ignore file
CustomPatterns ==
    { <<"g","e","n","/","*">>,                             \* gen/*
      <<"*",".","s","n","a","p">>,                         \* *.snap
      <<"R","E","A","D">>,                                 \* READ
      <<"*",".","(","j","s">> }                            \* *.(js

RECURSIVE SeqsUpTo(_, _)
SeqsUpTo(S, n) ==
    IF n = 0 THEN {<<>>}
    ELSE SeqsUpTo(S, n - 1)
           \cup {Append(q, x) : q \in SeqsUpTo(S, n - 1), x \in S}

\* what loadIgnorePatterns returns: the defaults, then the lines of the file
loadIgnorePatterns(customPatterns) == DEFAULT_IGNORE_PATTERNS \o customPatterns

PatternLists ==
    {<<>>}
      \cup SeqsUpTo(CustomPatterns, MaxCustomPatterns)
      \cup {loadIgnorePatterns(c) : c \in SeqsUpTo(CustomPatterns, MaxCustomPatterns)}

IgnoreIdle ==
    /\ argFilePath = <<>>
    /\ argPatterns = <<>>
    /\ ignored = "none"
    /\ ignorePc = "idle"

IgnoreStart ==
    /\ argFilePath \in IgnorePaths
    /\ argPatterns \in PatternLists
    /\ ignored = "none"
    /\ ignorePc = "input"

\* one call shouldIgnoreFile(filePath, patterns)
CallShouldIgnoreFile ==
    /\ ignorePc = "input"
    /\ ignored' = IF shouldIgnoreFileThrows(argFilePath, argPatterns) THEN "SyntaxError"
                  ELSE IF shouldIgnoreFile(argFilePath, argPatterns) THEN "true"
                  ELSE "false"
    /\ ignorePc' = "called"
    /\ UNCHANGED <<argFilePath, argPatterns, notIgnore>>

-----------------------------------------------------------------------------
(* The cache store: getCache and setCache over the files of the cache
   directory *)

\* CONFIG.CACHE_DURATION, ms
CACHE_DURATION == 24 * 60 * 60 * 1000

\* null, as a text no response can be
Null == <<"null">>

\* undefined, likewise
Undefined == <<"undefined">>

\* a JSON number where a cache file should hold the text of a result
JsonNumber == <<"number">>

\* the values an `if (v)` takes
Truthy(v) == v \notin {Null, Undefined, <<>>}

\* the texts a backend answers with
Str_REJECT  == <<"R","E","J","E","C","T">>
Str_reject  == <<"r","e","j","e","c","t">>
Str_APPROVE == <<"A","P","P","R","O","V","E">>
Str_Issue   == <<"-",SP,"I","s","s","u","e">>

Responses ==
    { Str_REJECT \o <<NL>> \o Str_Issue,                   \* REJECT\n- Issue
      <<"R","e","j","e","c","t","e","d",":",SP,"x">>,      \* Rejected: x
      <<SP>> \o Str_reject \o <<SP,"y">>,                  \* _reject y
      <<NL>> \o Str_REJECT \o <<NL>> \o Str_Issue,         \* \nREJECT\n- Issue
      Str_APPROVE \o <<NL,"o","k">>,                       \* APPROVE\nok
      <<"I",SP>> \o Str_reject,                            \* I reject
      <<>> }                                               \* the empty text

\* the content of a file <key>.json
\*   record     what setCache writes
\*   notime     an object without a numeric timestamp
\*   jsonnull   the JSON text null
\*   garbage    not JSON
\*   unreadable readFileSync throws
CacheRecord(result, timestamp, provider, model) ==
    [kind |-> "record", result |-> result, timestamp |-> timestamp,
     provider |-> provider, model |-> model]

DamagedFiles ==
    { [kind |-> "notime"], [kind |-> "jsonnull"], [kind |-> "garbage"],
      [kind |-> "unreadable"] }

\* existsSync(cacheFile)
CacheFileExists(files, key) == key \in DOMAIN files

\* getCache with <= for <
getCache_Inclusive(files, key, t) ==
    IF key \in DOMAIN files /\ files[key].kind = "record"
         /\ t - files[key].timestamp <= CACHE_DURATION
      THEN files[key].result
      ELSE Null

\* getCache(key) over the files of the cache directory at time t
getCache(files, key, t) ==
    IF CacheFileExists(files, key)
      THEN LET data == files[key]
           IN  CASE data.kind = "record" ->
                      IF t - data.timestamp < CACHE_DURATION
                        THEN data.result
                        ELSE Null
                 [] data.kind = "notime" ->
                      \* Date.now() - undefined is NaN, NaN < n is false
                      Null
                 [] OTHER ->
                      \* JSON.parse, readFileSync or data.timestamp throws
                      Null
      ELSE Null

\* the files of the cache directory after setCache(key, result) at time t
\* when the write succeeds
setCache(files, key, result, t, provider, model) ==
    [k \in DOMAIN files \cup {key} |->
        IF k = key
          THEN CacheRecord(result, t, provider, model)
          ELSE files[k]]

-----------------------------------------------------------------------------
(* The cache on its own: one key, entries written, damaged and read back as
   time passes *)

\* the clock stops here: two retention windows and two milliseconds
MaxNow == 172800002

\* how far the clock moves between two operations
TimeSteps == {CACHE_DURATION - 1, CACHE_DURATION, CACHE_DURATION + 1}

Str_openai == <<"o","p","e","n","a","i">>
Str_gpt4   == <<"g","p","t","-","4">>
Str_diffX  == <<"d","i","f","f","-","X">>

\* changes + this.provider + this.model, what update() is given
HashInput(changes, provider, model) == changes \o provider \o model

\* the hexadecimal digits of a SHA-256 digest
DigestHexLen == 64

\* createHash('sha256').update(input).digest('hex'): the digits are not
\* computed; digit i of the digest of an input is the value <<"hex", i, input>>,
\* so two digests are equal exactly when their inputs are
sha256hex(input) == [i \in 1..DigestHexLen |-> <<"hex", i, input>>]

\* String.prototype.substring(from, to) for 0 <= from <= to
substring(s, from, to) ==
    SubSeq(s, from + 1, IF to <= Len(s) THEN to ELSE Len(s))

\* the characters of a cache key
KeyLen == 16

\* getCacheKey with the time of the call mixed into the hashed text
getCacheKey_Timed(changes, provider, model) ==
    substring(sha256hex(HashInput(changes, provider, model) \o <<now>>), 0, KeyLen)

\* getCacheKey: hash.substring(0, 16)
getCacheKey(changes, provider, model) ==
    substring(sha256hex(HashInput(changes, provider, model)), 0, KeyLen)

CacheKeys == {getCacheKey(Str_diffX, Str_openai, Str_gpt4)}

NoFiles == [k \in {} |-> Null]

DiskStart ==
    /\ cache = NoFiles
    /\ now = 0
    /\ marker = "none"

CacheIdle ==
    /\ argKey = <<>>
    /\ got = Null
    /\ cachePc = "idle"

CacheStart ==
    /\ argKey \in CacheKeys
    /\ got = Null
    /\ cachePc = "ready"

\* time passes
Advance ==
    \E d \in TimeSteps :
        /\ now + d <= MaxNow
        /\ now' = now + d
        /\ UNCHANGED <<cache, marker>>

\* something other than setCache changes or removes a cache file
Damage ==
    \E key \in DOMAIN cache :
        /\ cache[key].kind = "record"
        /\ \/ \E f \in DamagedFiles : cache' = [cache EXCEPT ![key] = f]
           \/ cache' = [k \in DOMAIN cache \ {key} |-> cache[k]]
        /\ UNCHANGED <<now, marker>>

CacheAdvance ==
    /\ cachePc # "idle"
    /\ Advance
    /\ cachePc' = "ready"
    /\ UNCHANGED <<argKey, got, notCache>>

CacheDamage ==
    /\ cachePc # "idle"
    /\ Damage
    /\ cachePc' = "ready"
    /\ UNCHANGED <<argKey, got, notCache>>

\* one call setCache(key, result)
CallSetCache ==
    /\ cachePc # "idle"
    /\ \E result \in Responses :
          cache' = setCache(cache, argKey, result, now, Str_openai, Str_gpt4)
    /\ cachePc' = "ready"
    /\ UNCHANGED <<now, marker, argKey, got, notCache>>

\* one call getCache(key)
CallGetCache ==
    /\ cachePc = "ready"
    /\ got' = getCache(cache, argKey, now)
    /\ cachePc' = "read"
    /\ UNCHANGED <<cache, now, marker, argKey, notCache>>

-----------------------------------------------------------------------------
(* callWithTimeout: the backend call raced against a timer *)

\* CONFIG.TIMEOUT
TIMEOUT_DEFAULT == 30000
TIMEOUT_MIN == 5000
TIMEOUT_MAX == 120000

DigitChars == <<"0","1","2","3","4","5","6","7","8","9">>

\* String(n) for a natural number n
RECURSIVE NatToString(_)
NatToString(n) ==
    IF n < 10 THEN <<DigitChars[n + 1]>>
    ELSE Append(NatToString(n \div 10), DigitChars[(n % 10) + 1])

\* the digits after the point of n/1000, none when n is a multiple of 1000
Thousandths(n) ==
    LET f == n % 1000
    IN  IF f = 0 THEN <<>>
        ELSE IF f % 100 = 0 THEN <<".", DigitChars[(f \div 100) + 1]>>
        ELSE IF f % 10 = 0
          THEN <<".", DigitChars[(f \div 100) + 1], DigitChars[((f \div 10) % 10) + 1]>>
        ELSE <<".", DigitChars[(f \div 100) + 1], DigitChars[((f \div 10) % 10) + 1],
               DigitChars[(f % 10) + 1]>>

\* `${ms/1000}`
SecondsToString(ms) == NatToString(ms \div 1000) \o Thousandths(ms)

Str_timeout == <<"t","i","m","e","o","u","t">>

\* the message of the error the timer rejects with
TimeoutMessage(ms) ==
    <<"A","I",SP,"r","e","v","i","e","w",SP>> \o Str_timeout
      \o <<SP,"a","f","t","e","r",SP>> \o SecondsToString(ms)
      \o <<SP,"s","e","c","o","n","d","s">>

\* the messages of the errors apiCall() rejects with
Str_ApiFailed ==
    <<"A","P","I",SP,"r","e","q","u","e","s","t",SP,"f","a","i","l","e","d",SP>>

CallErrors ==
    { Str_ApiFailed \o <<"(","5","0","0",")",":",SP,"o","o","p","s">>,
      Str_ApiFailed \o <<"(","5","0","4",")",":",SP,"G","a","t","e","w","a","y",SP>>
         \o Str_timeout,
      <<"f","e","t","c","h",SP,"f","a","i","l","e","d">>,
      <<"q","u","o","t","a">> }

\* resolve(v) or reject(e) of the promise callWithTimeout returns: the first
\* one settles it, a later one changes nothing
Settle(how, v) ==
    IF promise = "pending"
      THEN promise' = how /\ promiseValue' = v
      ELSE UNCHANGED <<promise, promiseValue>>

\* clearTimeout(timer): a timer that fired stays fired
ClearTimer == timer' = IF timer = "armed" THEN "cleared" ELSE timer

\* the then callback without clearTimeout
ThenCallback_NoClear(result) ==
    /\ call = "pending"
    /\ call' = "fulfilled"
    /\ callValue' = result
    /\ UNCHANGED timer
    /\ Settle("resolved", result)
    /\ UNCHANGED timeoutMs

\* new Promise(...): setTimeout, then apiCall() is started
StartCallWithTimeout(ms) ==
    /\ timeoutMs' = ms
    /\ timer' = "armed"
    /\ call' = "pending"
    /\ callValue' = Null
    /\ promise' = "pending"
    /\ promiseValue' = Null

\* the timer callback: reject(new Error(`AI review timeout after ...`))
TimerCallback ==
    /\ timer = "armed"
    /\ timer' = "fired"
    /\ Settle("rejected", TimeoutMessage(timeoutMs))
    /\ UNCHANGED <<timeoutMs, call, callValue>>

\* apiCall() is fulfilled: .then(result => { clearTimeout(timer); resolve(result) })
ThenCallback(result) ==
    /\ call = "pending"
    /\ call' = "fulfilled"
    /\ callValue' = result
    /\ ClearTimer
    /\ Settle("resolved", result)
    /\ UNCHANGED timeoutMs

\* apiCall() is rejected: .catch(error => { clearTimeout(timer); reject(error) })
CatchCallback(error) ==
    /\ call = "pending"
    /\ call' = "rejected"
    /\ callValue' = error
    /\ ClearTimer
    /\ Settle("rejected", error)
    /\ UNCHANGED timeoutMs

-----------------------------------------------------------------------------
(* callWithTimeout on its own: a caller that stays alive after the promise
   is settled *)

Timeouts == {TIMEOUT_MIN, TIMEOUT_DEFAULT, 45500, 60000, TIMEOUT_MAX}

PromiseIdle ==
    /\ timeoutMs = 0
    /\ timer = "none"
    /\ call = "none"
    /\ callValue = Null
    /\ promise = "none"
    /\ promiseValue = Null

CwtStart ==
    /\ promise = "none"
    /\ \E ms \in Timeouts : StartCallWithTimeout(ms)
    /\ UNCHANGED notPromise

CwtTimerFires ==
    /\ TimerCallback
    /\ UNCHANGED notPromise

CwtCallFulfilled ==
    /\ \E result \in Responses : ThenCallback(result)
    /\ UNCHANGED notPromise

CwtCallRejected ==
    /\ \E error \in CallErrors : CatchCallback(error)
    /\ UNCHANGED notPromise

-----------------------------------------------------------------------------
(* Configuration: AI_PROVIDERS and the constructor *)

\* the letter U+0131, dotless i: toUpperCase gives "I", toLowerCase keeps it
DotlessI == "U+0131"

\* String.prototype.toUpperCase, one character
UpperChar(c) ==
    IF c \in Range(LowerLetters)
      THEN UpperLetters[CHOOSE i \in DOMAIN LowerLetters : LowerLetters[i] = c]
    ELSE IF c = DotlessI THEN "I"
    ELSE c

\* String.prototype.toUpperCase
toUpperCase(s) == [i \in DOMAIN s |-> UpperChar(s[i])]

Str_claude == <<"c","l","a","u","d","e">>
Str_gemini == <<"g","e","m","i","n","i">>
Str_ollama == <<"o","l","l","a","m","a">>
Str_cohere == <<"c","o","h","e","r","e">>

\* AI_PROVIDERS: the key of a descriptor |-> its name, its default model,
\* where the request carries the credential ("bearer", "x-api-key", "url",
\* "none") and whether the payload names the model
AI_PROVIDERS ==
    [P \in {toUpperCase(Str_openai), toUpperCase(Str_claude), toUpperCase(Str_gemini),
            toUpperCase(Str_ollama), toUpperCase(Str_cohere)} |->
        CASE P = toUpperCase(Str_openai) ->
               [name |-> Str_openai, model |-> Str_gpt4,
                auth |-> "bearer", payloadModel |-> TRUE]
          [] P = toUpperCase(Str_claude) ->
               [name |-> Str_claude,
                model |-> <<"c","l","a","u","d","e","-","3","-","s","o","n","n","e","t",
                            "-","2","0","2","4","0","2","2","9">>,
                auth |-> "x-api-key", payloadModel |-> TRUE]
          [] P = toUpperCase(Str_gemini) ->
               [name |-> Str_gemini,
                model |-> <<"g","e","m","i","n","i","-","p","r","o">>,
                auth |-> "url", payloadModel |-> FALSE]
          [] P = toUpperCase(Str_ollama) ->
               [name |-> Str_ollama,
                model |-> <<"c","o","d","e","l","l","a","m","a">>,
                auth |-> "none", payloadModel |-> TRUE]
          [] P = toUpperCase(Str_cohere) ->
               [name |-> Str_cohere,
                model |-> <<"c","o","m","m","a","n","d">>,
                auth |-> "bearer", payloadModel |-> TRUE]]

\* the environment variables the constructor reads; a variable that is not
\* set has the empty text
EnvNames ==
    { "AI_PROVIDER", "OPENAI_API_KEY", "CLAUDE_API_KEY", "ANTHROPIC_API_KEY",
      "GEMINI_API_KEY", "GOOGLE_API_KEY", "COHERE_API_KEY", "AI_API_KEY",
      "AI_MODEL", "OPENAI_MODEL", "CLAUDE_MODEL", "GEMINI_MODEL",
      "OLLAMA_MODEL", "COHERE_MODEL", "AI_GUARD_TIMEOUT",
      "AI_GUARD_MAX_FILE_SIZE" }

\* the name of the variable `${provider}_MODEL`
ProviderModelVar(P) ==
    CASE P = toUpperCase(Str_openai) -> "OPENAI_MODEL"
      [] P = toUpperCase(Str_claude) -> "CLAUDE_MODEL"
      [] P = toUpperCase(Str_gemini) -> "GEMINI_MODEL"
      [] P = toUpperCase(Str_ollama) -> "OLLAMA_MODEL"
      [] P = toUpperCase(Str_cohere) -> "COHERE_MODEL"

\* a || b || ... over texts: the first that is not empty, else the last
RECURSIVE FirstTruthy(_)
FirstTruthy(texts) ==
    IF Len(texts) = 1 \/ Head(texts) # <<>>
      THEN Head(texts)
      ELSE FirstTruthy(Tail(texts))

getApiKey(e) ==
    FirstTruthy(<< e.vars["OPENAI_API_KEY"], e.vars["CLAUDE_API_KEY"],
                   e.vars["ANTHROPIC_API_KEY"], e.vars["GEMINI_API_KEY"],
                   e.vars["GOOGLE_API_KEY"], e.vars["COHERE_API_KEY"],
                   e.vars["AI_API_KEY"] >>)

getProvider_ClaudeFirst(e) ==
    LET envProvider == toLowerCase(e.vars["AI_PROVIDER"])
    IN  IF envProvider # <<>> /\ toUpperCase(envProvider) \in DOMAIN AI_PROVIDERS
          THEN envProvider
        ELSE IF e.vars["CLAUDE_API_KEY"] # <<>> \/ e.vars["ANTHROPIC_API_KEY"] # <<>>
          THEN Str_claude
        ELSE IF e.vars["OPENAI_API_KEY"] # <<>> THEN Str_openai
        ELSE IF e.vars["GEMINI_API_KEY"] # <<>> \/ e.vars["GOOGLE_API_KEY"] # <<>>
          THEN Str_gemini
        ELSE IF e.vars["COHERE_API_KEY"] # <<>> THEN Str_cohere
        ELSE IF e.probe THEN Str_ollama
        ELSE Str_openai

getProvider(e) ==
    LET envProvider == toLowerCase(e.vars["AI_PROVIDER"])
    IN  IF envProvider # <<>> /\ toUpperCase(envProvider) \in DOMAIN AI_PROVIDERS
          THEN envProvider
        ELSE IF e.vars["OPENAI_API_KEY"] # <<>> THEN Str_openai
        ELSE IF e.vars["CLAUDE_API_KEY"] # <<>> \/ e.vars["ANTHROPIC_API_KEY"] # <<>>
          THEN Str_claude
        ELSE IF e.vars["GEMINI_API_KEY"] # <<>> \/ e.vars["GOOGLE_API_KEY"] # <<>>
          THEN Str_gemini
        ELSE IF e.vars["COHERE_API_KEY"] # <<>> THEN Str_cohere
        ELSE IF e.probe THEN Str_ollama
        ELSE Str_openai

\* CONFIG.FILE_SIZE
FILE_SIZE_DEFAULT_MAX == 50000
FILE_SIZE_MIN == 1000
FILE_SIZE_MAX == 1000000

Max(a, b) == IF a >= b THEN a ELSE b
Min(a, b) == IF a <= b THEN a ELSE b

\* parseInt(text) without a radix: leading white space is skipped, a sign is
\* read, "0x" or "0X" selects base 16, and the digits up to the first
\* character that is no digit are the number; with no digit the result is NaN
HexChars == DigitChars \o <<"a","b","c","d","e","f">>

\* the value of c as a digit of the radix, -1 when it is none
DigitOf(c, radix) ==
    IF \E d \in 1..radix : HexChars[d] = LowerChar(c)
      THEN (CHOOSE d \in 1..radix : HexChars[d] = LowerChar(c)) - 1
      ELSE -1

\* the digits of s from position i on; acc is -1 until a digit was read
RECURSIVE ParseDigits(_, _, _, _)
ParseDigits(s, i, radix, acc) ==
    IF i > Len(s) \/ DigitOf(s[i], radix) < 0 THEN acc
    ELSE ParseDigits(s, i + 1, radix,
                     (IF acc < 0 THEN 0 ELSE acc) * radix + DigitOf(s[i], radix))

NaN == [nan |-> TRUE, value |-> 0]
Number(n) == [nan |-> FALSE, value |-> n]

parseInt(text) ==
    LET lead == IF \A i \in DOMAIN text : text[i] \in Whitespace THEN Len(text)
                ELSE (CHOOSE i \in DOMAIN text :
                         text[i] \notin Whitespace
                         /\ \A k \in 1..(i - 1) : text[k] \in Whitespace) - 1
        s == SubSeq(text, lead + 1, Len(text))
        signed == s # <<>> /\ s[1] \in {"+", "-"}
        sign == IF signed /\ s[1] = "-" THEN -1 ELSE 1
        u == IF signed THEN Tail(s) ELSE s
        hex == Len(u) >= 2 /\ u[1] = "0" /\ u[2] \in {"x", "X"}
        digits == IF hex THEN ParseDigits(u, 3, 16, -1) ELSE ParseDigits(u, 1, 10, -1)
    IN  IF digits < 0 THEN NaN ELSE Number(sign * digits)

\* number || fallback: NaN and 0 are falsy
OrDefault(parsed, fallback) ==
    IF parsed.nan \/ parsed.value = 0 THEN fallback ELSE parsed.value

\* Math.max(min, Math.min(max, n))
Clamp(lo, hi, n) == Max(lo, Min(hi, n))

getTimeout_Unclamped(e) ==
    OrDefault(parseInt(e.vars["AI_GUARD_TIMEOUT"]), TIMEOUT_DEFAULT)

getTimeout(e) ==
    Clamp(TIMEOUT_MIN, TIMEOUT_MAX,
          OrDefault(parseInt(e.vars["AI_GUARD_TIMEOUT"]), TIMEOUT_DEFAULT))

getMaxFileSize(e) ==
    Clamp(FILE_SIZE_MIN, FILE_SIZE_MAX,
          OrDefault(parseInt(e.vars["AI_GUARD_MAX_FILE_SIZE"]), FILE_SIZE_DEFAULT_MAX))

getModel(e, prov) ==
    FirstTruthy(<< e.vars["AI_MODEL"],
                   e.vars[ProviderModelVar(toUpperCase(prov))],
                   AI_PROVIDERS[toUpperCase(prov)].model >>)

-----------------------------------------------------------------------------
(* The collector: getStagedFiles and getChanges *)

\* the index of the last "." of p, 0 if there is none
LastDot(p) ==
    IF \E i \in DOMAIN p : p[i] = "."
      THEN CHOOSE i \in DOMAIN p :
               p[i] = "." /\ \A k \in (i + 1)..Len(p) : p[k] # "."
      ELSE 0

\* path.extname: from the last "." of the basename, unless it starts it
extname(p) ==
    LET b == basename(p)
    IN  IF LastDot(b) <= 1 THEN <<>> ELSE SubSeq(b, LastDot(b), Len(b))

\* Array.prototype.join
RECURSIVE JoinSeq(_, _)
JoinSeq(parts, sep) ==
    IF parts = <<>> THEN <<>>
    ELSE IF Len(parts) = 1 THEN Head(parts)
    ELSE Head(parts) \o sep \o JoinSeq(Tail(parts), sep)

\* String.prototype.trim
trim(s) ==
    IF \A i \in DOMAIN s : s[i] \in Whitespace THEN <<>>
    ELSE LET a == CHOOSE i \in DOMAIN s :
                      s[i] \notin Whitespace /\ \A k \in 1..(i - 1) : s[k] \in Whitespace
             b == CHOOSE i \in DOMAIN s :
                      s[i] \notin Whitespace /\ \A k \in (i + 1)..Len(s) : s[k] \in Whitespace
         IN  SubSeq(s, a, b)

\* what version control answers for a path: the line statistics report the
\* file binary ("binary"), report line counts ("text") or the query fails
\* ("fails"); the staged diff is a text, or the query fails (DiffFails)
DiffFails == <<"fails">>

Path_a_ts    == <<"s","r","c","/","a",".","t","s">>
Path_env     == <<".","e","n","v",".","p","r","o","d","u","c","t","i","o","n">>
Path_logo    == <<"l","o","g","o",".","p","n","g">>
Path_blob    == <<"d","a","t","a",".","b","l","o","b">>
Path_snap    == <<"g","e","n","/","x",".","s","n","a","p">>

Path_big     == <<"s","r","c","/","b","i","g",".","t","s">>
Path_cfg     == <<"s","r","c","/","c","f","g",".","t","s">>
\* a listed file for which `git diff --cached "<file>"` exits non-zero
Path_gone    == <<"s","r","c","/","o","l","d",".","t","s">>

Diff_a_ts == <<"+","c","o","n","s","t",SP,"x",";">>
Diff_cfg == <<"+","p","a","s","s","w","o","r","d","=",DQ,"p","w",DQ>>

\* a diff longer than the default ceiling, and so than every smaller one
BigDiffLen == 50001
Diff_big == <<"+">> \o Rep("Q", BigDiffLen - 1)

Numstat(path) == IF path = Path_blob THEN "binary" ELSE "text"

Diff(path) ==
    IF path = Path_a_ts THEN Diff_a_ts
    ELSE IF path = Path_big THEN Diff_big
    ELSE IF path = Path_cfg THEN Diff_cfg
    ELSE IF path = Path_gone THEN DiffFails
    ELSE <<"+","y">>

\* getStagedFiles: listing is what `git diff --cached --name-only` gave
\* (ok = FALSE when the command fails), custom the lines of the ignore file
getStagedFiles(ls, custom) ==
    IF ~ls.ok THEN <<>>
    ELSE
      LET NotBinaryExt(file) ==
              file # <<>> /\ toLowerCase(extname(file)) \notin BINARY_EXTENSIONS
          allFiles == SelectSeq(ls.files, NotBinaryExt)
          ignorePatterns == loadIgnorePatterns(custom)
          NotIgnored(file) == ~shouldIgnoreFile(file, ignorePatterns)
          NotBinary(file) == Numstat(file) # "binary"
      IN  IF \E i \in DOMAIN allFiles :
                 shouldIgnoreFileThrows(allFiles[i], ignorePatterns)
            THEN <<>>       \* the SyntaxError is caught: 'Could not get staged files'
            ELSE SelectSeq(SelectSeq(allFiles, NotIgnored), NotBinary)

\* allFiles: the listing without the files of a binary extension
AllFiles(ls) ==
    LET NotBinaryExt(file) ==
            file # <<>> /\ toLowerCase(extname(file)) \notin BINARY_EXTENSIONS
    IN  SelectSeq(ls.files, NotBinaryExt)

\* allFiles.length - nonBinaryFiles.length
IgnoredOf(allFiles, nonBinaryFiles) == Len(allFiles) - Len(nonBinaryFiles)

\* the number getStagedFiles logs as ignored; -1 when the function returns
\* before the log
ignoredCount(ls, custom) ==
    IF ~ls.ok THEN -1
    ELSE IF \E i \in DOMAIN AllFiles(ls) :
               shouldIgnoreFileThrows(AllFiles(ls)[i], loadIgnorePatterns(custom))
      THEN -1
    ELSE IgnoredOf(AllFiles(ls), getStagedFiles(ls, custom))

\* (n/1024).toFixed(1)
KBToFixed1(n) ==
    LET tenths == (10 * n + 512) \div 1024
    IN  NatToString(tenths \div 10) \o <<".", DigitChars[(tenths % 10) + 1]>>

FileHeader(file) == <<"-","-","-",SP>> \o file \o <<SP,"-","-","-",NL>>

TooLargeNote(diff) ==
    <<"[","F","i","l","e",SP,"t","o","o",SP,"l","a","r","g","e",SP,"f","o","r",SP,
      "A","I",SP,"r","e","v","i","e","w",SP,"-",SP>>
      \o KBToFixed1(Len(diff)) \o <<"K","B","]">>

\* the text getChanges makes of one file
ChangeOf_Unfiltered(file, maxSize) ==
    LET diff == Diff(file)
    IN  IF diff = DiffFails THEN <<>>
        ELSE IF Len(diff) > maxSize THEN FileHeader(file) \o TooLargeNote(diff)
        ELSE FileHeader(file) \o diff

ChangeOf_DropsLarge(file, maxSize) ==
    LET diff == Diff(file)
    IN  IF diff = DiffFails THEN <<>>
        ELSE IF Len(diff) > maxSize THEN <<>>
        ELSE FileHeader(file) \o filterSensitiveContent(diff)

ChangeOf(file, maxSize) ==
    LET diff == Diff(file)
    IN  IF diff = DiffFails THEN <<>>
        ELSE IF Len(diff) > maxSize THEN FileHeader(file) \o TooLargeNote(diff)
        ELSE FileHeader(file) \o filterSensitiveContent(diff)

\* getChanges without the try/catch around each file: one failing diff
\* leaves no changes at all
getChanges_NoCatch(files, maxSize) ==
    LET NotEmpty(change) == change # <<>>
    IN  IF \E i \in DOMAIN files : Diff(files[i]) = DiffFails
          THEN <<>>
          ELSE JoinSeq(SelectSeq([i \in DOMAIN files |-> ChangeOf(files[i], maxSize)],
                                 NotEmpty),
                       <<NL, NL>>)

getChanges(files, maxSize) ==
    LET NotEmpty(change) == change # <<>>
    IN  JoinSeq(SelectSeq([i \in DOMAIN files |-> ChangeOf(files[i], maxSize)], NotEmpty),
                <<NL, NL>>)

\* loadRules: the text of the rules file, else the built-in rules
DefaultRules == <<"#",SP,"U","n","i","v","e","r","s","a","l">>

loadRules(file) == IF file = Null THEN DefaultRules ELSE file

\* createPrompt: the fixed template with its two holes filled
createPrompt(chg, rules) == [rules |-> rules, changes |-> chg]

-----------------------------------------------------------------------------
(* run: from the constructor to process.exit *)

\* how a run ends: what it reports, the argument of _storeReviewResult
\* ("none" when it is not called), the text rendered for a rejection and the
\* argument of process.exit
Ending(o, m, text, code) == [outcome |-> o, marker |-> m, message |-> text, exit |-> code]

\* if (!this.apiKey && this.provider !== 'ollama'), never taken
MissingCredential_Never(key, prov) == FALSE

\* if (!this.apiKey && this.provider !== 'ollama')
MissingCredential(key, prov) == ~Truthy(key) /\ prov # Str_ollama

\* the two empty short-circuits, never taken
EarlyExit_Never(files, chg) == "none"

\* stagedFiles.length === 0, then !changes.trim()
EarlyExit(files, chg) ==
    IF Len(files) = 0 THEN "NoFiles"
    ELSE IF trim(chg) = <<>> THEN "NoChanges"
    ELSE "none"

\* result.replace(/^reject/i, '')
StripReject(result) ==
    IF HasAtCI(result, 1, Str_reject)
      THEN SubSeq(result, Len(Str_reject) + 1, Len(result))
      ELSE result

\* the outer catch: 'Review failed', _storeReviewResult('ERROR'), process.exit(0)
OuterCatch == Ending("Errored", "ERROR", <<>>, 0)

\* the verdict branch with process.exit(0) for a rejection
VerdictBranch_RejectExitsZero(result) ==
    IF result \in {Undefined, JsonNumber} THEN OuterCatch
    ELSE IF startsWith(toLowerCase(result), Str_reject)
      THEN Ending("Rejected", "none", trim(StripReject(result)), 0)
      ELSE Ending("Approved", "SUCCESS", <<>>, 0)

\* the verdict branch: if (result.toLowerCase().startsWith('reject')) ...
VerdictBranch(result) ==
    IF result \in {Undefined, JsonNumber}
      THEN OuterCatch           \* result.toLowerCase throws a TypeError
    ELSE IF startsWith(toLowerCase(result), Str_reject)
      THEN Ending("Rejected", "none", trim(StripReject(result)), 1)
      ELSE Ending("Approved", "SUCCESS", <<>>, 0)

\* the inner catch rethrowing every error
InnerCatch_Rethrows(errorMessage) == OuterCatch

\* catch (timeoutError): the 'timeout' branch, else rethrown to the outer catch
InnerCatch(errorMessage) ==
    IF includes(errorMessage, Str_timeout)
      THEN Ending("TimedOut", "TIMEOUT", <<>>, 0)
      ELSE OuterCatch

\* callAI: a provider without an entry in the table is an error
Unsupported(prov) == toUpperCase(prov) \notin DOMAIN AI_PROVIDERS

UnsupportedMessage(prov) ==
    <<"U","n","s","u","p","p","o","r","t","e","d",SP,"A","I",SP,
      "p","r","o","v","i","d","e","r",":",SP>> \o prov

\* the request apiCall() hands to fetch
Request(prov, key, mdl, prompt) ==
    LET providerConfig == AI_PROVIDERS[toUpperCase(prov)]
    IN  [backend    |-> providerConfig.name,
         auth       |-> providerConfig.auth,
         credential |-> IF providerConfig.auth = "none" THEN <<>> ELSE key,
         \* payload(prompt) of GEMINI takes no model: the request names the
         \* model of its URL, models/gemini-pro, the model of the descriptor
         model      |-> IF providerConfig.payloadModel THEN mdl ELSE providerConfig.model,
         prompt     |-> prompt]

\* _storeReviewResult(r) and process.exit(code), or process.exit(code) alone
Finish(e) ==
    /\ outcome' = e.outcome
    /\ message' = e.message
    /\ stored' = e.marker
    /\ marker' = IF e.marker = "none" THEN marker ELSE e.marker
    /\ exitCode' = e.exit
    /\ pc' = "exited"

\* the run waits for the promise of callWithTimeout
Await ==
    /\ outcome' = "none"
    /\ message' = <<>>
    /\ stored' = "none"
    /\ exitCode' = -1
    /\ pc' = "awaiting"
    /\ UNCHANGED marker

NoPromise ==
    /\ timeoutMs' = 0
    /\ timer' = "none"
    /\ call' = "none"
    /\ callValue' = Null
    /\ promise' = "none"
    /\ promiseValue' = Null

Work(files, chg, key, res, cached) ==
    /\ stagedFiles' = files
    /\ runChanges' = chg
    /\ cacheKey' = key
    /\ runResult' = res
    /\ fromCache' = cached

Trace(reqs, l, reads, writes) ==
    /\ requests' = reqs
    /\ listed' = l
    /\ cacheReads' = reads
    /\ cacheWrites' = writes

\* the processes started in one behaviour
MaxRuns == 2

\* process.env, and whether the local endpoint answers the probe
NoVars == [n \in EnvNames |-> <<>>]

Key_openai == <<"s","k","-","o","1">>
Key_gemini == <<"k","e","y","-","c">>

Environments ==
    { [vars |-> NoVars, probe |-> FALSE],
      [vars |-> NoVars, probe |-> TRUE],
      [vars |-> [NoVars EXCEPT !["AI_PROVIDER"] = <<"C","l","a","u","d","e">>],
       probe |-> TRUE],
      [vars |-> [NoVars EXCEPT !["OPENAI_API_KEY"] = Key_openai,
                               !["AI_GUARD_MAX_FILE_SIZE"] = <<"9","9","9">>],
       probe |-> FALSE],
      [vars |-> [NoVars EXCEPT !["AI_PROVIDER"] = Str_claude,
                               !["OPENAI_API_KEY"] = Key_openai], probe |-> FALSE],
      [vars |-> [NoVars EXCEPT !["AI_PROVIDER"] = <<"b","o","g","u","s">>,
                               !["GEMINI_API_KEY"] = Key_gemini], probe |-> FALSE] }

\* what `git diff --cached --name-only` gives
Listings ==
    { [ok |-> FALSE, files |-> <<>>],
      [ok |-> TRUE, files |-> <<>>],
      [ok |-> TRUE, files |-> <<Path_a_ts>>],
      [ok |-> TRUE, files |-> <<Path_env, Path_logo, Path_blob>>],
      [ok |-> TRUE, files |-> <<Path_snap>>],
      [ok |-> TRUE, files |-> <<Path_env, Path_a_ts>>],
      [ok |-> TRUE, files |-> <<Path_big, Path_a_ts>>] }

\* the configuration files of a project: the lines of .ai-guard-ignore that
\* are patterns, and the text of .code-rules.md (Null: there is no such file)
Projects ==
    { [ignore |-> <<>>, rules |-> Null],
      [ignore |-> << <<"*",".","s","n","a","p">> >>,
       rules |-> <<"n","o",SP,"T","O","D","O">>],
      [ignore |-> << <<"*",".","(","j","s">> >>, rules |-> Null] }

RunIdle ==
    /\ pc = "none"
    /\ runs = 0
    /\ env = [vars |-> NoVars, probe |-> FALSE]
    /\ listing = [ok |-> FALSE, files |-> <<>>]
    /\ ignoreFile = <<>>
    /\ rulesFile = Null
    /\ thisApiKey = <<>>
    /\ thisProvider = <<>>
    /\ thisTimeout = 0
    /\ thisMaxFileSize = 0
    /\ thisModel = <<>>
    /\ stagedFiles = <<>>
    /\ runChanges = <<>>
    /\ cacheKey = <<>>
    /\ runResult = Null
    /\ fromCache = FALSE
    /\ requests = <<>>
    /\ listed = FALSE
    /\ cacheReads = 0
    /\ cacheWrites = 0
    /\ stored = "none"
    /\ outcome = "none"
    /\ message = <<>>
    /\ exitCode = -1

\* no process has run yet
RunFresh ==
    /\ pc = "none"
    /\ runs = 0
    /\ thisApiKey = <<>>
    /\ thisProvider = <<>>
    /\ thisTimeout = 0
    /\ thisMaxFileSize = 0
    /\ thisModel = <<>>
    /\ stagedFiles = <<>>
    /\ runChanges = <<>>
    /\ cacheKey = <<>>
    /\ runResult = Null
    /\ fromCache = FALSE
    /\ requests = <<>>
    /\ listed = FALSE
    /\ cacheReads = 0
    /\ cacheWrites = 0
    /\ stored = "none"
    /\ outcome = "none"
    /\ message = <<>>
    /\ exitCode = -1

RunStart ==
    /\ RunFresh
    /\ env \in Environments
    /\ listing \in Listings
    /\ \E project \in Projects :
          /\ ignoreFile = project.ignore
          /\ rulesFile = project.rules

\* a process is started: the constructor, then run() as far as it gets
\* without waiting: to a process.exit or to the await of callAI
StartRun ==
    /\ pc \in {"none", "exited"}
    /\ runs < MaxRuns
    /\ runs' = runs + 1
    /\ LET key  == getApiKey(env)
           prov == getProvider(env)
           mdl  == getModel(env, prov)
       IN
       /\ thisApiKey' = key
       /\ thisProvider' = prov
       /\ thisTimeout' = getTimeout(env)
       /\ thisMaxFileSize' = getMaxFileSize(env)
       /\ thisModel' = mdl
       /\ IF MissingCredential(key, prov)
            THEN /\ Work(<<>>, <<>>, <<>>, Null, FALSE)
                 /\ Trace(<<>>, FALSE, 0, 0)
                 /\ Finish(Ending("NoKey", "ERROR", <<>>, 0))
                 /\ NoPromise
            ELSE
              \E files \in {getStagedFiles(listing, ignoreFile)} :
              \E chg \in {getChanges(files, getMaxFileSize(env))} :
              LET early == EarlyExit(files, chg)
                  ck    == getCacheKey(chg, prov, mdl)
                  hit   == getCache(cache, ck, now)
              IN
              IF early = "NoFiles"
                THEN /\ Work(files, <<>>, <<>>, Null, FALSE)
                     /\ Trace(<<>>, TRUE, 0, 0)
                     /\ Finish(Ending("NoFiles", "none", <<>>, 0))
                     /\ NoPromise
              ELSE IF early = "NoChanges"
                THEN /\ Work(files, chg, <<>>, Null, FALSE)
                     /\ Trace(<<>>, TRUE, 0, 0)
                     /\ Finish(Ending("NoChanges", "none", <<>>, 0))
                     /\ NoPromise
              ELSE IF Truthy(hit)
                THEN /\ Work(files, chg, ck, hit, TRUE)
                     /\ Trace(<<>>, TRUE, 1, 0)
                     /\ Finish(VerdictBranch(hit))
                     /\ NoPromise
              ELSE IF Unsupported(prov)
                THEN /\ Work(files, chg, ck, Null, FALSE)
                     /\ Trace(<<>>, TRUE, 1, 0)
                     /\ Finish(InnerCatch(UnsupportedMessage(prov)))
                     /\ NoPromise
              ELSE   /\ Work(files, chg, ck, Null, FALSE)
                     /\ Trace(<<Request(prov, key, mdl,
                                        createPrompt(chg, loadRules(rulesFile)))>>,
                              TRUE, 1, 0)
                     /\ Await
                     /\ StartCallWithTimeout(getTimeout(env))
    /\ UNCHANGED <<cache, now, inputVars, notRun>>

\* the deadline passes before the backend answers: the timer callback
\* rejects the promise and run() goes on in its catch
RunTimerFires ==
    /\ pc = "awaiting"
    /\ TimerCallback
    /\ Finish(InnerCatch(TimeoutMessage(timeoutMs)))
    /\ UNCHANGED <<cache, now, runs, inputVars, guardVars, workVars, traceVars, notRun>>

\* the backend answers: run() goes on with setCache (the write is taken to
\* succeed) and the verdict branch
RunCallFulfilled ==
    /\ pc = "awaiting"
    /\ \E result \in Responses \cup {Undefined} :
          /\ ThenCallback(result)
          /\ runResult' = result
          /\ cache' = setCache(cache, cacheKey, result, now, thisProvider, thisModel)
          /\ cacheWrites' = cacheWrites + 1
          /\ Finish(VerdictBranch(result))
    /\ UNCHANGED <<now, runs, inputVars, guardVars, stagedFiles, runChanges, cacheKey,
                   fromCache, requests, listed, cacheReads, notRun>>

\* the backend answers and writeFileSync (or mkdirSync) throws in setCache:
\* the catch of setCache warns, and run() goes on with the verdict branch
RunCallFulfilledWriteFails ==
    /\ pc = "awaiting"
    /\ \E result \in Responses \cup {Undefined} :
          /\ ThenCallback(result)
          /\ runResult' = result
          /\ cache' = cache
          /\ cacheWrites' = cacheWrites + 1
          /\ Finish(VerdictBranch(result))
    /\ UNCHANGED <<now, runs, inputVars, guardVars, stagedFiles, runChanges, cacheKey,
                   fromCache, requests, listed, cacheReads, notRun>>

\* the request fails: the promise is rejected with the error of apiCall()
\* and run() goes on in its catch
RunCallRejected ==
    /\ pc = "awaiting"
    /\ \E error \in CallErrors :
          /\ CatchCallback(error)
          /\ Finish(InnerCatch(error))
    /\ UNCHANGED <<cache, now, runs, inputVars, guardVars, workVars, traceVars, notRun>>

\* time passes between two processes: one step at most, to just before the
\* end of the retention window or to its end
RunAdvance ==
    /\ pc = "exited"
    /\ runs < MaxRuns
    /\ now <= (runs - 1) * CACHE_DURATION
    /\ \E d \in {CACHE_DURATION - 1, CACHE_DURATION} :
          /\ now + d <= MaxNow
          /\ now' = now + d
    /\ UNCHANGED <<cache, marker>>
    /\ UNCHANGED <<cacheVars, redactVars, ignoreVars, promiseVars, runVars, fnVars,
                   commitVars>>

-----------------------------------------------------------------------------
(* The commit-msg step: _handleCommitMsg *)

\* CONFIG.COMMIT_FLAGS
COMMIT_FLAGS ==
    [SUCCESS |-> <<"A","I","-","R","E","V","I","E","W","-","P","A","S","S","E","D">>,
     TIMEOUT |-> <<"A","I","-","R","E","V","I","E","W","-","F","A","I","L","E","D","-",
                   "T","I","M","E","O","U","T">>,
     ERROR   |-> <<"A","I","-","R","E","V","I","E","W","-","S","K","I","P","P","E","D","-",
                   "E","R","R","O","R">>]

\* `[${flag}]`
Bracketed(flag) == <<"[">> \o flag \o <<"]">>

\* what .ai-guard-result can hold: "none" is no file, "" an empty file,
\* "STALE" a text that is none of the three results
MarkerContents == {"none", "", "SUCCESS", "TIMEOUT", "ERROR", "STALE"}

\* _getStoredReviewResult: the text of the file, "null" where there is none
getStoredReviewResult(mk) == IF mk = "none" THEN "null" ELSE mk

\* _handleCommitMsg on the commit message file (Null: no file is named or
\* the named file does not exist) and the marker: the file and the marker it
\* leaves, and the exit status
handleCommitMsg_KeepsMarker(msg, mk) ==
    LET reviewResult == getStoredReviewResult(mk)
    IN  IF msg = Null THEN [msg |-> msg, marker |-> mk, exit |-> 0]
        ELSE IF reviewResult \in {"null", ""}
          THEN [msg |-> msg, marker |-> mk, exit |-> 0]
        ELSE IF reviewResult \notin DOMAIN COMMIT_FLAGS
          THEN [msg |-> msg, marker |-> mk, exit |-> 0]
        ELSE LET currentMsg == trim(msg)
                 flag == Bracketed(COMMIT_FLAGS[reviewResult])
             IN  [msg |-> IF includes(currentMsg, flag) THEN msg
                          ELSE currentMsg \o <<SP>> \o flag,
                  marker |-> mk,
                  exit |-> 0]

handleCommitMsg(msg, mk) ==
    LET reviewResult == getStoredReviewResult(mk)
    IN  IF msg = Null THEN [msg |-> msg, marker |-> mk, exit |-> 0]
        ELSE IF reviewResult \in {"null", ""}
          THEN [msg |-> msg, marker |-> mk, exit |-> 0]
        ELSE IF reviewResult \notin DOMAIN COMMIT_FLAGS
          THEN [msg |-> msg, marker |-> mk, exit |-> 0]
        ELSE LET currentMsg == trim(msg)
                 flag == Bracketed(COMMIT_FLAGS[reviewResult])
             IN  [msg |-> IF includes(currentMsg, flag) THEN msg
                          ELSE currentMsg \o <<SP>> \o flag,
                  marker |-> "none",
                  exit |-> 0]

\* the commit-msg steps of one behaviour
MaxSteps == 3

Str_fix == <<"f","i","x">>

\* the commit message version control hands to the hook
CommitMessages ==
    { Null,
      <<>>,
      Str_fix,
      Str_fix \o <<NL>>,
      Str_fix \o <<SP>> \o Bracketed(COMMIT_FLAGS.SUCCESS) \o <<NL>>,
      <<SP>> \o Bracketed(COMMIT_FLAGS.ERROR) \o <<SP,"w","i","p">> }

CommitIdle ==
    /\ commitMsg = Null
    /\ msgExit = -1
    /\ steps = 0

CommitStart ==
    /\ commitMsg \in CommitMessages
    /\ marker \in MarkerContents
    /\ msgExit = -1
    /\ steps = 0

\* the hook runs the program with --commit-msg <file>
CommitMsgStep ==
    /\ steps < MaxSteps
    /\ \E r \in {handleCommitMsg(commitMsg, marker)} :
          /\ commitMsg' = r.msg
          /\ marker' = r.marker
          /\ msgExit' = r.exit
    /\ steps' = steps + 1
    /\ UNCHANGED notCommit

\* a review run in between ends with _storeReviewResult(result)
StoreReviewResult ==
    /\ steps > 0
    /\ \E result \in DOMAIN COMMIT_FLAGS : marker' = result
    /\ UNCHANGED <<commitVars, notCommit>>

-----------------------------------------------------------------------------
(* Functions of the program called on their own *)

FnIdle ==
    /\ fnArgs = <<>>
    /\ fnResult = Null
    /\ fnPc = "idle"

\* everything but the call is at rest
RestIdle ==
    RedactIdle /\ IgnoreIdle /\ DiskStart /\ CacheIdle /\ PromiseIdle /\ RunIdle /\ CommitIdle

\* getCacheKey on two (changes, provider, model) triples
Str_use == <<"+","u","s","e",SP>>

KeyChanges == { Str_use \o Str_openai, Str_use, Str_diffX }
KeyProviders == { Str_openai, Str_ollama }
KeyModels == { Str_gpt4, Str_openai \o Str_gpt4, <<"l","l","a","m","a">> }

KeyTriples ==
    { [changes |-> c, provider |-> p, model |-> m] :
         c \in KeyChanges, p \in KeyProviders, m \in KeyModels }

KeyStart ==
    /\ fnArgs \in KeyTriples \X KeyTriples
    /\ fnResult = Null
    /\ fnPc = "ready"

CallGetCacheKey ==
    /\ fnPc = "ready"
    /\ fnResult' = [i \in 1..2 |->
                       getCacheKey(fnArgs[i].changes, fnArgs[i].provider, fnArgs[i].model)]
    /\ fnPc' = "done"
    /\ UNCHANGED <<fnArgs, notFn>>

\* getStagedFiles on a listing of up to MaxStaged different paths
MaxStaged == 3

StagedPaths == {Path_a_ts, Path_env, Path_logo, Path_blob, Path_snap}

StagedListings ==
    { ls \in UNION { [1..n -> StagedPaths] : n \in 0..MaxStaged } :
         \A i, k \in DOMAIN ls : i # k => ls[i] # ls[k] }

CollectStart ==
    /\ fnArgs \in { [listing |-> [ok |-> TRUE, files |-> ls], ignore |-> project.ignore] :
                       ls \in StagedListings, project \in Projects }
    /\ fnResult = Null
    /\ fnPc = "ready"

CallGetStagedFiles ==
    /\ fnPc = "ready"
    /\ fnResult' = [files |-> getStagedFiles(fnArgs.listing, fnArgs.ignore),
                    ignored |-> ignoredCount(fnArgs.listing, fnArgs.ignore)]
    /\ fnPc' = "done"
    /\ UNCHANGED <<fnArgs, notFn>>

\* run() from the listing to the prompt and the cache key, for a listing of
\* up to MaxStaged different paths with the key and the file size left unset
GatherPaths == {Path_a_ts, Path_env, Path_cfg, Path_gone, Path_blob, Path_logo}

GatherListings ==
    { ls \in UNION { [1..n -> GatherPaths] : n \in 0..MaxStaged } :
         \A i, k \in DOMAIN ls : i # k => ls[i] # ls[k] }

GatherStart ==
    /\ fnArgs \in { [listing |-> [ok |-> TRUE, files |-> ls], ignore |-> project.ignore,
                      rules |-> project.rules] :
                       ls \in GatherListings, project \in Projects }
    /\ fnResult = Null
    /\ fnPc = "ready"

CallGather ==
    /\ fnPc = "ready"
    /\ \E files \in {getStagedFiles(fnArgs.listing, fnArgs.ignore)} :
       \E chg \in {getChanges(files, FILE_SIZE_DEFAULT_MAX)} :
          fnResult' = [files |-> files,
                       changes |-> chg,
                       early |-> EarlyExit(files, chg),
                       key |-> getCacheKey(chg, Str_openai, Str_gpt4),
                       prompt |-> createPrompt(chg, loadRules(fnArgs.rules))]
    /\ fnPc' = "done"
    /\ UNCHANGED <<fnArgs, notFn>>

\* the constructor on an environment: either the variables that select the
\* backend are drawn and the limits are not set, or the other way round
ProviderTexts ==
    { <<>>, <<"C","l","a","u","d","e">>, Str_gemini, Str_ollama,
      <<"b","o","g","u","s">>, <<"o","p","e","n","a",DotlessI>> }

KeyVars ==
    { "OPENAI_API_KEY", "CLAUDE_API_KEY", "ANTHROPIC_API_KEY", "GEMINI_API_KEY",
      "GOOGLE_API_KEY", "COHERE_API_KEY" }

\* the key stored in a variable: its name tells the variable
KeyOf(n) ==
    CASE n = "OPENAI_API_KEY"    -> Key_openai
      [] n = "CLAUDE_API_KEY"    -> <<"k","-","c","l">>
      [] n = "ANTHROPIC_API_KEY" -> <<"k","-","a","n">>
      [] n = "GEMINI_API_KEY"    -> Key_gemini
      [] n = "GOOGLE_API_KEY"    -> <<"k","-","g","o">>
      [] n = "COHERE_API_KEY"    -> <<"k","-","c","o">>
      [] n = "AI_API_KEY"        -> <<"k","-","a","i">>

ProviderEnvs ==
    { [vars |-> [n \in EnvNames |->
                    IF n = "AI_PROVIDER" THEN p
                    ELSE IF n \in set THEN KeyOf(n) ELSE <<>>],
       probe |-> b] :
         p \in ProviderTexts, set \in SUBSET KeyVars, b \in BOOLEAN }

LimitTexts ==
    { <<>>, <<"4","5","0","0","0">>, <<"1","0","0","0">>, <<"0">>, <<"-","5">>,
      <<"a","b","c">>, <<"5","0","0","0">>, <<"1","2","0","0","0","0">>,
      <<"1","2","0","0","0","1">>, <<"1","0","0","0","0","0","0">>,
      <<"1","0","0","0","0","0","1">>, <<"9","9","9">>, <<"4","9","9","9">>,
      <<"7","5","0","0","0">>, <<"1","e","5">>, <<SP,"6","0","0","0">>,
      <<"6","0","0","0","m","s">>, <<"0","x","2","7","1","0">>,
      <<"6","0","0","0",".","7">> }

LimitEnvs ==
    { [vars |-> [NoVars EXCEPT !["AI_GUARD_TIMEOUT"] = t,
                               !["AI_GUARD_MAX_FILE_SIZE"] = m],
       probe |-> FALSE] : t \in LimitTexts, m \in LimitTexts }

ConfigStart ==
    /\ fnArgs \in ProviderEnvs \cup LimitEnvs
    /\ fnResult = Null
    /\ fnPc = "ready"

\* new AICommitGuard()
CallConstructor ==
    /\ fnPc = "ready"
    /\ fnResult' = [apiKey |-> getApiKey(fnArgs),
                    provider |-> getProvider(fnArgs),
                    timeout |-> getTimeout(fnArgs),
                    maxFileSize |-> getMaxFileSize(fnArgs),
                    model |-> getModel(fnArgs, getProvider(fnArgs))]
    /\ fnPc' = "done"
    /\ UNCHANGED <<fnArgs, notFn>>

-----------------------------------------------------------------------------
(* Specifications *)

RedactInit == RedactStart /\ IgnoreIdle /\ DiskStart /\ CacheIdle /\ PromiseIdle /\ RunIdle /\ FnIdle /\ CommitIdle
RedactNext == Filter \/ Refilter
SpecRedact == RedactInit /\ [][RedactNext]_vars

IgnoreInit == IgnoreStart /\ RedactIdle /\ DiskStart /\ CacheIdle /\ PromiseIdle /\ RunIdle /\ FnIdle /\ CommitIdle
IgnoreNext == CallShouldIgnoreFile
SpecIgnore == IgnoreInit /\ [][IgnoreNext]_vars

CacheInit == CacheStart /\ DiskStart /\ RedactIdle /\ IgnoreIdle /\ PromiseIdle /\ RunIdle /\ FnIdle /\ CommitIdle
CacheNext == CallSetCache \/ CallGetCache \/ CacheAdvance \/ CacheDamage
SpecCache == CacheInit /\ [][CacheNext]_vars

TimeoutInit == PromiseIdle /\ DiskStart /\ CacheIdle /\ RedactIdle /\ IgnoreIdle /\ RunIdle /\ FnIdle /\ CommitIdle
TimeoutNext == CwtStart \/ CwtTimerFires \/ CwtCallFulfilled \/ CwtCallRejected
SpecTimeout == TimeoutInit /\ [][TimeoutNext]_vars
\* a timer that is armed fires unless it is cleared
FairSpecTimeout == SpecTimeout /\ WF_vars(CwtTimerFires)

KeyInit == KeyStart /\ RestIdle
KeyNext == CallGetCacheKey
SpecKey == KeyInit /\ [][KeyNext]_vars

CollectInit == CollectStart /\ RestIdle
CollectNext == CallGetStagedFiles
SpecCollect == CollectInit /\ [][CollectNext]_vars

GatherInit == GatherStart /\ RestIdle
GatherNext == CallGather
SpecGather == GatherInit /\ [][GatherNext]_vars

ConfigInit == ConfigStart /\ RestIdle
ConfigNext == CallConstructor
SpecConfig == ConfigInit /\ [][ConfigNext]_vars

CommitInit ==
    /\ CommitStart
    /\ cache = NoFiles
    /\ now = 0
    /\ RedactIdle /\ IgnoreIdle /\ CacheIdle /\ PromiseIdle /\ RunIdle /\ FnIdle
CommitNext == CommitMsgStep \/ StoreReviewResult
SpecCommit == CommitInit /\ [][CommitNext]_vars

\* review runs and commit-msg steps of one repository, in any order: the
\* hooks of a commit run the review and then the step, and a commit that is
\* given up after the review leaves the step out
FlowEnv ==
    [vars |-> [NoVars EXCEPT !["OPENAI_API_KEY"] = Key_openai,
                             !["AI_GUARD_MAX_FILE_SIZE"] = <<"9","9","9">>],
     probe |-> FALSE]

FlowListings == { [ok |-> TRUE, files |-> <<>>], [ok |-> TRUE, files |-> <<Path_a_ts>>] }

FlowStart ==
    /\ RunFresh
    /\ env = FlowEnv
    /\ listing \in FlowListings
    /\ ignoreFile = <<>>
    /\ rulesFile = Null
    /\ commitMsg = Str_fix \o <<NL>>
    /\ msgExit = -1
    /\ steps = 0

\* the commit-msg step, between two runs or after the last
FlowStep ==
    /\ pc # "awaiting"
    /\ CommitMsgStep

\* other files are staged for the next commit
Restage ==
    /\ pc = "exited"
    /\ runs < MaxRuns
    /\ \E ls \in FlowListings : ls # listing /\ listing' = ls
    /\ UNCHANGED <<pc, runs, env, ignoreFile, rulesFile, guardVars, workVars, traceVars,
                   endVars, diskVars, promiseVars, notRun>>

\* .code-rules.md is written or rewritten between two runs
FlowRules == { Null, <<"n","o",SP,"T","O","D","O">> }

EditRules ==
    /\ pc = "exited"
    /\ runs < MaxRuns
    /\ \E rules \in FlowRules : rules # rulesFile /\ rulesFile' = rules
    /\ UNCHANGED <<pc, runs, env, listing, ignoreFile, guardVars, workVars, traceVars,
                   endVars, diskVars, promiseVars, notRun>>

\* runs over a cache directory that holds a file setCache did not write
\* under the key of the run, and with cache writes that fail
FaultKey ==
    getCacheKey(getChanges(<<Path_a_ts>>, getMaxFileSize(FlowEnv)),
                getProvider(FlowEnv), getModel(FlowEnv, getProvider(FlowEnv)))

ForeignFiles ==
    DamagedFiles \cup {CacheRecord(JsonNumber, 0, Str_openai, Str_gpt4)}

FaultsStart ==
    /\ RunFresh
    /\ env = FlowEnv
    /\ listing = [ok |-> TRUE, files |-> <<Path_a_ts>>]
    /\ ignoreFile = <<>>
    /\ rulesFile = Null
    /\ cache \in {NoFiles} \cup { [k \in {FaultKey} |-> f] : f \in ForeignFiles }
    /\ now = 0
    /\ marker = "none"

FaultsInit ==
    FaultsStart /\ PromiseIdle /\ CacheIdle /\ RedactIdle /\ IgnoreIdle /\ FnIdle /\ CommitIdle
FaultsNext ==
    \/ StartRun \/ RunTimerFires \/ RunCallFulfilled \/ RunCallFulfilledWriteFails
    \/ RunCallRejected \/ RunAdvance
SpecFaults == FaultsInit /\ [][FaultsNext]_vars

\* runs under each backend, with AI_MODEL and <PROVIDER>_MODEL set or not
Str_m1 == <<"m","1">>
Str_m2 == <<"m","2">>

ModelEnvs ==
    { [vars |-> [n \in EnvNames |->
                    IF n = "AI_PROVIDER" THEN b
                    ELSE IF n = "AI_API_KEY" THEN KeyOf(n)
                    ELSE IF n = "AI_MODEL" THEN m
                    ELSE IF n = ProviderModelVar(toUpperCase(b)) THEN pm
                    ELSE <<>>],
       probe |-> FALSE] :
         b \in {Str_openai, Str_claude, Str_gemini, Str_ollama, Str_cohere},
         m \in {<<>>, Str_m1}, pm \in {<<>>, Str_m2} }

ModelStart ==
    /\ RunFresh
    /\ env \in ModelEnvs
    /\ listing = [ok |-> TRUE, files |-> <<Path_a_ts>>]
    /\ ignoreFile = <<>>
    /\ rulesFile = Null

ModelInit ==
    ModelStart /\ DiskStart /\ PromiseIdle /\ CacheIdle /\ RedactIdle /\ IgnoreIdle
        /\ FnIdle /\ CommitIdle
ModelNext ==
    StartRun \/ RunTimerFires \/ RunCallFulfilled \/ RunCallRejected \/ RunAdvance
SpecModel == ModelInit /\ [][ModelNext]_vars

FlowInit == FlowStart /\ DiskStart /\ PromiseIdle /\ CacheIdle /\ RedactIdle /\ IgnoreIdle /\ FnIdle
FlowNext ==
    \/ StartRun \/ RunTimerFires \/ RunCallFulfilled \/ RunCallRejected \/ RunAdvance
    \/ FlowStep \/ Restage \/ EditRules
SpecFlow == FlowInit /\ [][FlowNext]_vars

Init == RunStart /\ DiskStart /\ PromiseIdle /\ CacheIdle /\ RedactIdle /\ IgnoreIdle /\ FnIdle /\ CommitIdle
Next == StartRun \/ RunTimerFires \/ RunCallFulfilled \/ RunCallRejected \/ RunAdvance
Spec == Init /\ [][Next]_vars
\* the timer of a run that waits fires unless the call settles first
FairSpec == Spec /\ WF_vars(RunTimerFires)

-----------------------------------------------------------------------------
(* Properties of the ignore engine *)

\* some sensitive keyword occurs in p, ignoring case
MentionsKeyword(p) ==
    \E kw \in SENSITIVE_KEYWORDS : \E i \in DOMAIN p : HasAtCI(p, i, kw)

\* C3: a path that contains one of the six sensitive keywords, in any case,
\* in its directory part or in its basename, is ignored whatever the pattern
\* list is (empty, defaults, project-supplied lines, lines that do not
\* compile).
C3_KeywordAlwaysIgnored ==
    (ignorePc = "called" /\ MentionsKeyword(argFilePath)) => ignored = "true"

\* C3 witness: the keyword is only in the directory part and in another case,
\* and the one pattern of the list does not compile
C3_Witness ==
    /\ ignorePc = "called"
    /\ MentionsKeyword(argFilePath)
    /\ ~MentionsKeyword(basename(argFilePath))
    /\ ~HasSensitiveKeyword_CaseSensitive(argFilePath)
    /\ Len(argPatterns) = 1
    /\ PatternThrows(argPatterns[1])
    /\ ignored = "true"

-----------------------------------------------------------------------------
(* Properties of the redactor *)

\* the position of the opening quote of a token assigned to apiKey at i:
\* apiKey, optional whitespace, : or =, optional whitespace, then a quoted
\* sk- token of at least 32 alphanumeric characters; 0 if there is none
ApiKeyTokenAt(s, i) ==
    IF HasAt(s, i, Str_apiKey)
      THEN LET a == i + Len(Str_apiKey)
               b == a + RunLen(s, a, Whitespace)
           IN  IF b <= Len(s) /\ s[b] \in {":", "="}
                 THEN LET q == b + 1 + RunLen(s, b + 1, Whitespace)
                      IN  IF q <= Len(s) /\ MatchApiKey(s, q) > 0 THEN q ELSE 0
                 ELSE 0
      ELSE 0

\* the token (sk- and what follows) between the quotes at q
TokenAt(s, q) == SubSeq(s, q + 1, q + MatchApiKey(s, q) - 2)

\* the length of a recognisable part of a token
TracePartLen == 8

\* out holds TracePartLen consecutive characters of the token
HasTraceOf(out, tok) ==
    \E k \in 1..(Len(tok) - TracePartLen + 1) :
        includes(out, SubSeq(tok, k, k + TracePartLen - 1))

\* C4: when the text assigns a quoted sk- token of at least 32 alphanumeric
\* characters to apiKey, the redacted text contains [API_KEY_HIDDEN] and no
\* part of the token.
C4_ApiKeyPlaceholder ==
    redactPc # "input" =>
        \A i \in DOMAIN content :
            ApiKeyTokenAt(content, i) > 0 =>
                /\ includes(filtered, ApiKeyHidden)
                /\ ~HasTraceOf(filtered, TokenAt(content, ApiKeyTokenAt(content, i)))

\* C5: redacting the redacted text changes nothing.
C5_Idempotent ==
    redactPc = "twice" => refiltered = filtered

-----------------------------------------------------------------------------
(* Properties of the cache store *)

TwentyFourHours == 86400000

\* the file of the key is a record setCache wrote and its age is below 24 h
HasFreshRecord ==
    /\ argKey \in DOMAIN cache
    /\ cache[argKey].kind = "record"
    /\ now - cache[argKey].timestamp < TwentyFourHours

-----------------------------------------------------------------------------
(* Properties of callWithTimeout *)

\* the three ways the promise is settled
SettledWithResult ==
    /\ promise = "resolved"
    /\ call = "fulfilled"
    /\ promiseValue = callValue
    /\ timer = "cleared"

SettledWithTimeout ==
    /\ promise = "rejected"
    /\ timer = "fired"
    /\ promiseValue = TimeoutMessage(timeoutMs)

SettledWithCallError ==
    /\ promise = "rejected"
    /\ call = "rejected"
    /\ promiseValue = callValue
    /\ timer = "cleared"

SettledOneWay ==
    \/ SettledWithResult /\ ~SettledWithTimeout /\ ~SettledWithCallError
    \/ SettledWithTimeout /\ ~SettledWithResult /\ ~SettledWithCallError
    \/ SettledWithCallError /\ ~SettledWithResult /\ ~SettledWithTimeout

\* a step leaves a settled promise as it is
SettledStays ==
    promise \in {"resolved", "rejected"}
        => (promise' = promise /\ promiseValue' = promiseValue)

\* C7: the promise of callWithTimeout is settled in exactly one of three ways
\* (the call's result, the timeout error, the call's own error) and, once
\* settled, never changes; a timer cleared by the call's settling never
\* fires; and a pending promise is eventually settled.
C7_SettlesOnce ==
    /\ [](promise \in {"resolved", "rejected"} => SettledOneWay)
    /\ [][SettledStays]_vars
    /\ [][timer = "cleared" => timer' = "cleared"]_vars
    /\ [](promise = "pending" => <>(promise \in {"resolved", "rejected"}))

\* C7 witness: the deadline fired first and the call was fulfilled later;
\* the promise still carries the timeout error
C7_Witness ==
    /\ timer = "fired"
    /\ call = "fulfilled"
    /\ callValue \in Responses
    /\ promise = "rejected"
    /\ promiseValue = TimeoutMessage(timeoutMs)

-----------------------------------------------------------------------------
(* Properties of run *)

\* the run has a verdict text and it begins with reject in any case
BeginsWithReject(text) == text \notin {Null, Undefined} /\ HasAtCI(text, 1, Str_reject)

\* C1: a run that has ended has a non-zero exit status exactly when its
\* verdict text, fresh or cached, is classified Rejected; runs that end
\* Approved, TimedOut or Errored, and runs with nothing to review, exit 0.
C1_ExitIffRejected ==
    pc = "exited" =>
        /\ (exitCode # 0) <=> (outcome = "Rejected")
        /\ (outcome = "Rejected") <=> BeginsWithReject(runResult)
        /\ outcome \in {"Approved", "TimedOut", "Errored", "NoFiles", "NoChanges", "NoKey"}
              => exitCode = 0

\* C1 witness: a rejection served from the cache blocks the commit
C1_Witness ==
    /\ pc = "exited"
    /\ fromCache
    /\ requests = <<>>
    /\ outcome = "Rejected"
    /\ exitCode = 1

\* C2: a run that got a response is Rejected exactly when the response,
\* trimmed and in lower case, begins with reject, and Approved otherwise; the
\* message of a rejection is the response without the leading token.
C2_TrimmedVerdict ==
    (pc = "exited" /\ runResult \notin {Null, Undefined}) =>
        /\ (outcome = "Rejected") <=> startsWith(toLowerCase(trim(runResult)), Str_reject)
        /\ outcome \in {"Rejected", "Approved"}
        /\ outcome = "Rejected" => message = trim(StripReject(trim(runResult)))

\* C6: a run whose timer fired has recorded TIMEOUT and left with status 0,
\* and a run that waits for the backend always comes to its exit, whether
\* the backend answers or not.
C6_TimeoutEnds ==
    /\ [](timer = "fired" =>
             /\ pc = "exited"
             /\ outcome = "TimedOut"
             /\ stored = "TIMEOUT"
             /\ marker = "TIMEOUT"
             /\ exitCode = 0)
    /\ [](pc = "awaiting" => <>(pc = "exited"))

\* C6 witness: the deadline passed while the call was still pending and the
\* run is over
C6_Witness ==
    /\ timer = "fired"
    /\ call = "pending"
    /\ timeoutMs = TIMEOUT_DEFAULT
    /\ pc = "exited"
    /\ exitCode = 0

\* the variables _getApiKey reads
ApiKeyVars ==
    { "OPENAI_API_KEY", "CLAUDE_API_KEY", "ANTHROPIC_API_KEY", "GEMINI_API_KEY",
      "GOOGLE_API_KEY", "COHERE_API_KEY", "AI_API_KEY" }

NoCredentialSet == \A n \in ApiKeyVars : env.vars[n] = <<>>

\* C8: a started run without any credential whose backend is not ollama has
\* ended with the ERROR marker and status 0, and has neither listed the
\* staged files, nor read the cache, nor sent a request.
C8_NoCredential ==
    (pc # "none" /\ NoCredentialSet /\ thisProvider # Str_ollama) =>
        /\ pc = "exited"
        /\ stored = "ERROR"
        /\ marker = "ERROR"
        /\ exitCode = 0
        /\ ~listed
        /\ cacheReads = 0
        /\ requests = <<>>

\* C8 witness: AI_PROVIDER names claude and no credential is set
C8_Witness ==
    /\ pc = "exited"
    /\ NoCredentialSet
    /\ thisProvider = Str_claude
    /\ outcome = "NoKey"

\* C9: a run that asked for the staged files and was left with none, the
\* failed listing included, has ended with status 0 and sent no request.
C9_NothingToReview ==
    /\ (pc # "none" /\ listed /\ ~listing.ok) => stagedFiles = <<>>
    /\ (pc # "none" /\ listed /\ stagedFiles = <<>>) =>
          /\ pc = "exited"
          /\ exitCode = 0
          /\ requests = <<>>

\* C9 witness: files are staged and every one of them is filtered out
C9_Witness ==
    /\ pc = "exited"
    /\ listed
    /\ listing.ok
    /\ Len(listing.files) = 3
    /\ stagedFiles = <<>>
    /\ outcome = "NoFiles"

-----------------------------------------------------------------------------
(* Properties of getCacheKey *)

\* C11: two triples get the same key only when they are the same triple (the
\* digest being free of collisions, equal keys mean equal hashed text).
C11_DistinctTriplesDistinctInput ==
    (fnPc = "done" /\ fnResult[1] = fnResult[2]) => fnArgs[1] = fnArgs[2]

\* a step keeps the key of a run when changes, provider and model are kept
KeyKept ==
    (/\ cacheKey # <<>>
     /\ cacheKey' # <<>>
     /\ runChanges' = runChanges
     /\ thisProvider' = thisProvider
     /\ thisModel' = thisModel) => cacheKey' = cacheKey

-----------------------------------------------------------------------------
(* Properties of the collector *)

TooLarge(file) == Diff(file) # DiffFails /\ Len(Diff(file)) > thisMaxFileSize

\* C13: a listed file that passes the three filters and whose diff is longer
\* than the ceiling is among the files returned for review (so the ignored
\* count, allFiles less the files returned, does not hold it); the text for
\* review holds its header and the too-large note and nothing of its diff;
\* and the run has gone on to the review: it read the cache, and a request
\* it sent carries the note.
C13_TooLargePlaceholder ==
    /\ (pc # "none" /\ stagedFiles # <<>>) =>
          \A i \in DOMAIN listing.files :
              ( /\ TooLarge(listing.files[i])
                /\ listing.files[i] \in Range(AllFiles(listing))
                /\ Numstat(listing.files[i]) # "binary"
                /\ ~shouldIgnoreFile(listing.files[i], loadIgnorePatterns(ignoreFile)) )
              => listing.files[i] \in Range(stagedFiles)
    /\ \A i \in DOMAIN stagedFiles :
          (pc # "none" /\ TooLarge(stagedFiles[i])) =>
              LET file == stagedFiles[i]
                  note == FileHeader(file) \o TooLargeNote(Diff(file))
              IN  /\ includes(runChanges, note)
                  /\ ~includes(runChanges, SubSeq(Diff(file), 2, 3))
                  /\ outcome \notin {"NoFiles", "NoChanges"}
                  /\ cacheReads = 1
                  /\ \A k \in DOMAIN requests :
                         includes(requests[k].prompt.changes, note)

\* C13 witness: a run with the ceiling clamped to 1000 sent a request for a
\* file of 50001 characters
C13_Witness ==
    /\ pc = "exited"
    /\ thisMaxFileSize = 1000
    /\ \E i \in DOMAIN stagedFiles :
          stagedFiles[i] = Path_big /\ TooLarge(stagedFiles[i])
    /\ Len(requests) = 1
    /\ Len(runChanges) < 100

\* C14: the ignored count that getStagedFiles computes is the number of
\* listed paths it dropped, whichever filter dropped them: the binary
\* extension, the ignore engine or the line statistics.
C14_IgnoredCountsEveryDrop ==
    (fnPc = "done" /\ fnResult.ignored >= 0) =>
        fnResult.ignored = Len(fnArgs.listing.files) - Len(fnResult.files)

-----------------------------------------------------------------------------
(* Properties of the constructor *)

SupportedNames == {Str_openai, Str_claude, Str_gemini, Str_ollama, Str_cohere}

\* the credentialed backends in the order of their precedence, each with the
\* variables that hold its credential
CredentialOrder ==
    << [name |-> Str_openai, keys |-> {"OPENAI_API_KEY"}],
       [name |-> Str_claude, keys |-> {"CLAUDE_API_KEY", "ANTHROPIC_API_KEY"}],
       [name |-> Str_gemini, keys |-> {"GEMINI_API_KEY", "GOOGLE_API_KEY"}],
       [name |-> Str_cohere, keys |-> {"COHERE_API_KEY"}] >>

HasCredential(e, k) == \E n \in CredentialOrder[k].keys : e.vars[n] # <<>>

\* AI_PROVIDER is recognized: without regard to case it is a supported name
Recognized(e) == toUpperCase(e.vars["AI_PROVIDER"]) \in {toUpperCase(n) : n \in SupportedNames}

Precedence(e, selected) ==
    IF Recognized(e) THEN selected = toLowerCase(e.vars["AI_PROVIDER"])
    ELSE IF \E k \in 1..4 : HasCredential(e, k)
      THEN \E k \in 1..4 :
              /\ HasCredential(e, k)
              /\ \A j \in 1..(k - 1) : ~HasCredential(e, j)
              /\ selected = CredentialOrder[k].name
    ELSE IF e.probe THEN selected = Str_ollama
    ELSE selected = Str_openai

RECURSIVE DecValue(_)
DecValue(t) ==
    IF t = <<>> THEN 0
    ELSE 10 * DecValue(SubSeq(t, 1, Len(t) - 1))
           + (CHOOSE d \in 0..9 : DigitChars[d + 1] = t[Len(t)])

AllDigits(t) == t # <<>> /\ \A i \in DOMAIN t : t[i] \in Digits

\* the nearer bound of [lo, hi] for a number outside, the number inside
Nearest(lo, hi, n) == IF n < lo THEN lo ELSE IF n > hi THEN hi ELSE n

\* what the claim says of one limit: value is the text of the variable
AsStated(value, effective, lo, hi, default) ==
    /\ effective \in lo..hi
    /\ AllDigits(value) => effective = Nearest(lo, hi, DecValue(value))
    /\ (value = <<>> \/ \E i \in DOMAIN value : value[i] \in Range(LowerLetters))
          => effective = default

\* the same with the amendments: the number is read from the leading digits
\* of the text, and where that number is zero the default is taken
AsAmended(value, effective, lo, hi, default) ==
    LET prefix == SubSeq(value, 1, RunLen(value, 1, Digits))
        based == Len(value) >= 2 /\ value[1] = "0" /\ LowerChar(value[2]) = "x"
    IN  /\ effective \in lo..hi
        /\ (prefix # <<>> /\ ~based /\ DecValue(prefix) # 0)
              => effective = Nearest(lo, hi, DecValue(prefix))
        /\ (prefix # <<>> /\ ~based /\ DecValue(prefix) = 0) => effective = default
        /\ (value = <<>> \/ value[1] \in Range(LowerLetters)) => effective = default

-----------------------------------------------------------------------------
(* Properties of the backend and its credential *)

\* AI_PROVIDER is set to a name that, in lower case, is no supported name
NamesUnsupported ==
    /\ env.vars["AI_PROVIDER"] # <<>>
    /\ toLowerCase(env.vars["AI_PROVIDER"]) \notin SupportedNames

\* C16: a run whose AI_PROVIDER names no supported backend sends no request
\* to any backend, and once it has ended it has ended in the error branch
\* with the ERROR marker.
C16_UnsupportedIsFatal ==
    (pc # "none" /\ NamesUnsupported) =>
        /\ requests = <<>>
        /\ pc = "exited" => (stored = "ERROR" \/ outcome \in {"NoFiles", "NoChanges"})

-----------------------------------------------------------------------------
(* Properties of the redactor: what it keeps *)

\* C17: redaction keeps what is no secret: a text without a quote character
\* (every rule needs a quoted value) comes back unchanged, and where the
\* text holds publicKey: "this-is-fine" the output still holds this-is-fine.
C17_KeepsOrdinaryText ==
    redactPc # "input" =>
        /\ (\A i \in DOMAIN content : content[i] \notin Quotes) => filtered = content
        /\ includes(content, Str_publicKey \o <<":", SP, DQ>> \o Str_fine \o <<DQ>>)
              => includes(filtered, Str_fine)

-----------------------------------------------------------------------------
(* Properties of the commit-msg step *)

\* how often the text t occurs in the text s
Occurrences(s, t) == Cardinality({i \in 1..(Len(s) - Len(t) + 1) : HasAt(s, i, t)})

TextOf(msg) == IF msg = Null THEN <<>> ELSE msg

\* the flag of a marker, in its brackets
FlagOf(mk) ==
    CASE mk = "SUCCESS" -> <<"[">> \o COMMIT_FLAGS.SUCCESS \o <<"]">>
      [] mk = "TIMEOUT" -> <<"[">> \o COMMIT_FLAGS.TIMEOUT \o <<"]">>
      [] mk = "ERROR"   -> <<"[">> \o COMMIT_FLAGS.ERROR \o <<"]">>

\* one commit-msg step on an existing message file
StepEffect ==
    (steps' = steps + 1 /\ commitMsg # Null) =>
        /\ marker \in {"SUCCESS", "TIMEOUT", "ERROR"} =>
              /\ marker' = "none"
              /\ IF includes(commitMsg, FlagOf(marker))
                    THEN commitMsg' = commitMsg
                    ELSE commitMsg' = trim(commitMsg) \o <<SP>> \o FlagOf(marker)
        /\ marker = "none" => (commitMsg' = commitMsg /\ marker' = "none")
        /\ \A mk \in {"SUCCESS", "TIMEOUT", "ERROR"} :
              Occurrences(TextOf(commitMsg'), FlagOf(mk))
                 <= Max(1, Occurrences(TextOf(commitMsg), FlagOf(mk)))

-----------------------------------------------------------------------------
(* Properties of the credential sent *)

\* the credentials configured for a backend: those of its own variables and
\* of AI_API_KEY, which names no backend
OwnCredentials(backend) ==
    { env.vars[n] :
        n \in {"AI_API_KEY"} \cup
              UNION { CredentialOrder[k].keys :
                         k \in {j \in 1..4 : CredentialOrder[j].name = backend} } }
      \ {<<>>}

\* C20: the credential of every request is one configured for the backend
\* the request goes to, and a run whose backend needs a credential and has
\* none of its own has ended with the ERROR marker and status 0 without a
\* request.
C20_OwnCredentialOnly ==
    /\ \A k \in DOMAIN requests :
          requests[k].auth # "none" =>
              requests[k].credential \in OwnCredentials(requests[k].backend)
    /\ (pc # "none" /\ thisProvider # Str_ollama /\ OwnCredentials(thisProvider) = {}) =>
          /\ pc = "exited"
          /\ stored = "ERROR"
          /\ exitCode = 0
          /\ requests = <<>>

-----------------------------------------------------------------------------
(* Properties of runs and commit-msg steps together *)

\* C21: a commit-msg step that appends a flag appends the flag of what the
\* most recent review run stored; a run that stored nothing leaves no marker
\* of an earlier run for the step to apply.
C21_FlagOfLatestRun ==
    [][(steps' = steps + 1 /\ commitMsg' # commitMsg) =>
          (runs > 0 /\ stored # "none" /\ stored = marker)]_vars

-----------------------------------------------------------------------------
(* Properties of the backend call within a run *)

\* C22: a run whose backend call failed, or answered without the text, has
\* ended as Errored with the ERROR marker and status 0, and a run has ended
\* as TimedOut only when its timer fired.
C22_TimedOutOnlyByDeadline ==
    /\ (pc = "exited" /\ call = "rejected") =>
          (outcome = "Errored" /\ stored = "ERROR" /\ exitCode = 0)
    /\ (pc = "exited" /\ call = "fulfilled" /\ callValue = Undefined) =>
          (outcome = "Errored" /\ stored = "ERROR" /\ exitCode = 0)
    /\ (pc = "exited" /\ outcome = "TimedOut") => timer = "fired"

\* the cache directory holds a record for the key that is younger than the
\* retention window at time t
FreshEntry(files, key, t) ==
    /\ key \in DOMAIN files
    /\ files[key].kind = "record"
    /\ t - files[key].timestamp < CACHE_DURATION

\* a request is sent only on a key without a fresh entry
SendsOnMissOnly ==
    (runs' = runs + 1 /\ requests' # <<>>) => ~FreshEntry(cache, cacheKey', now)

\* the cache is written only as the pending call of the run is fulfilled
\* while its timer is still armed
WritesOnSuccessOnly ==
    cache' # cache =>
        /\ pc = "awaiting" /\ call = "pending" /\ timer = "armed"
        /\ call' = "fulfilled"
        /\ cacheKey \in DOMAIN cache'
        /\ cache'[cacheKey].kind = "record"
        /\ cache'[cacheKey].result = callValue'

\* C23: a run sends a request only when the cache has no fresh entry for its
\* key and sends at most one; the cache is written only when the call of the
\* run is fulfilled before the deadline, never on a hit, a timeout or a
\* failed call.
C23_CacheThenBackend ==
    /\ [](Len(requests) <= 1)
    /\ [][SendsOnMissOnly]_vars
    /\ [][WritesOnSuccessOnly]_vars

\* C24: a run is served from the cache only when the request that produced
\* the entry carried the review prompt this run would send; an entry stored
\* under one rules text is not served after the rules text changed.
C24_SamePromptOnly ==
    [][(runs' = runs + 1 /\ fromCache' /\ requests # <<>>) =>
          requests[1].prompt = createPrompt(runChanges', loadRules(rulesFile))]_vars

\* a listed file that passes every filter of getStagedFiles
PassesFilters(file, custom) ==
    /\ file # <<>>
    /\ toLowerCase(extname(file)) \notin BINARY_EXTENSIONS
    /\ ~shouldIgnoreFile(file, loadIgnorePatterns(custom))
    /\ Numstat(file) # "binary"

\* C25: the changes text of a run holds, for a listed file that passed every
\* filter and whose diff was read and is within the ceiling, its diff after
\* filterSensitiveContent and not the diff as read; it holds neither the
\* header nor the diff of a listed file that a filter dropped; and it is
\* this text that enters the prompt and is hashed into the cache key.
C25_OnlyFilteredDiffs ==
    (fnPc = "done" /\ fnResult.files # <<>>) =>
        /\ \A i \in DOMAIN fnArgs.listing.files :
              LET file == fnArgs.listing.files[i]
                  diff == Diff(file)
              IN  IF PassesFilters(file, fnArgs.ignore)
                    THEN (diff # DiffFails /\ Len(diff) <= FILE_SIZE_DEFAULT_MAX) =>
                           /\ includes(fnResult.changes,
                                       FileHeader(file) \o filterSensitiveContent(diff))
                           /\ (filterSensitiveContent(diff) # diff =>
                                  ~includes(fnResult.changes, diff))
                    ELSE /\ ~includes(fnResult.changes, FileHeader(file))
                         /\ ~includes(fnResult.changes, diff)
        /\ fnResult.key = getCacheKey(fnResult.changes, Str_openai, Str_gpt4)
        /\ fnResult.prompt.changes = fnResult.changes

\* C25 witness: the changes of a listing with a file excluded by pattern,
\* one reported binary, and one whose diff holds a password assignment
C25_Witness ==
    /\ fnPc = "done"
    /\ fnArgs.listing.files = <<Path_env, Path_cfg, Path_blob>>
    /\ fnResult.files = <<Path_cfg>>
    /\ includes(fnResult.prompt.changes,
                <<"[","P","A","S","S","W","O","R","D","_","H","I","D","D","E","N","]">>)
    /\ ~includes(fnResult.prompt.changes, <<DQ,"p","w",DQ>>)

\* text is pattern with each "*" replaced by some string and every other
\* character standing for itself
RECURSIVE GlobMatch(_, _)
GlobMatch(pattern, text) ==
    IF pattern = <<>> THEN text = <<>>
    ELSE IF Head(pattern) = "*"
      THEN \E k \in 0..Len(text) :
              GlobMatch(Tail(pattern), SubSeq(text, k + 1, Len(text)))
    ELSE /\ text # <<>>
         /\ Head(text) = Head(pattern)
         /\ GlobMatch(Tail(pattern), Tail(text))

\* the exclusion a pattern stands for: a wildcard pattern covers the whole
\* path or the whole basename, any other pattern is a substring of either
GlobExcludes(pattern, filePath) ==
    IF includes(pattern, <<"*">>)
      THEN GlobMatch(pattern, filePath) \/ GlobMatch(pattern, basename(filePath))
      ELSE includes(filePath, pattern) \/ includes(basename(filePath), pattern)

\* C26: whatever characters the lines of the ignore file hold, the collector
\* keeps every listed file that passes the built-in filters and that no
\* line of the ignore file covers; a line with "(" does not make it return
\* no file at all.
C26_PatternCharsHarmless ==
    (pc # "none" /\ listed) =>
        \A i \in DOMAIN listing.files :
            ( /\ PassesFilters(listing.files[i], <<>>)
              /\ \A k \in DOMAIN ignoreFile :
                    ~GlobExcludes(ignoreFile[k], listing.files[i]) )
            => \E j \in DOMAIN stagedFiles : stagedFiles[j] = listing.files[i]

\* C27: for a path without a sensitive keyword, shouldIgnoreFile returns
\* true exactly when some pattern covers the path or its basename, "*"
\* standing for any string and every other character for itself; a name
\* that only ends in "log" is not excluded by *.log.
C27_WildcardExactly ==
    (ignorePc = "called" /\ ignored # "SyntaxError" /\ ~HasSensitiveKeyword(argFilePath)) =>
        (ignored = "true" <=>
            \E k \in DOMAIN argPatterns : GlobExcludes(argPatterns[k], argFilePath))

\* a cache file that is no record of a result text
Malformed(file) == file.kind # "record" \/ file.result = JsonNumber

\* a run that finds a malformed file under its key goes on as on a miss
ReadFaultIsMiss ==
    (runs' = runs + 1 /\ cacheKey' \in DOMAIN cache /\ Malformed(cache[cacheKey']))
        => (pc' = "awaiting" /\ Len(requests') = 1 /\ ~fromCache')

\* a run whose cache write failed ends as the verdict branch ends for the
\* backend's answer, as it does after a write that succeeded
WriteFaultSameEnding ==
    (pc = "awaiting" /\ call' = "fulfilled") =>
        /\ outcome' = VerdictBranch(callValue').outcome
        /\ stored' = VerdictBranch(callValue').marker
        /\ exitCode' = VerdictBranch(callValue').exit

\* C28: a cache read that throws or finds a malformed entry behaves as a
\* miss, and a run whose cache write fails ends with the outcome, marker
\* and exit status of a run whose write succeeded.
C28_CacheFaultsHarmless ==
    /\ [][ReadFaultIsMiss]_vars
    /\ [][WriteFaultSameEnding]_vars

\* where t first occurs in s
FirstAt(s, t) ==
    CHOOSE i \in 1..Len(s) : HasAt(s, i, t) /\ \A k \in 1..(i - 1) : ~HasAt(s, k, t)

\* the staged files whose diff could be read
Retrieved(files) ==
    LET Reads(file) == Diff(file) # DiffFails
    IN  SelectSeq(files, Reads)

\* C29: a staged file whose diff cannot be read leaves nothing in the
\* changes, every other staged file is there under its header, the headers
\* come in the order of the listing, and the run goes on to the review as
\* long as one diff could be read.
C29_DiffFailureSkipsFile ==
    fnPc = "done" =>
        LET files == fnResult.files
            chg   == fnResult.changes
        IN  /\ \A i \in DOMAIN files :
                  Diff(files[i]) = DiffFails <=> ~includes(chg, FileHeader(files[i]))
            /\ \A i, j \in DOMAIN fnArgs.listing.files :
                  LET a == fnArgs.listing.files[i]
                      b == fnArgs.listing.files[j]
                  IN  (i < j /\ includes(chg, FileHeader(a)) /\ includes(chg, FileHeader(b)))
                          => FirstAt(chg, FileHeader(a)) < FirstAt(chg, FileHeader(b))
            /\ Retrieved(files) # <<>> =>
                  (fnResult.early = "none" /\ fnResult.prompt.changes = chg)

\* C29 witness: the diff of the second of three staged files fails, and the
\* changes hold the first and the third
C29_Witness ==
    /\ fnPc = "done"
    /\ fnResult.files = <<Path_cfg, Path_gone, Path_a_ts>>
    /\ fnResult.early = "none"
    /\ includes(fnResult.changes, FileHeader(Path_a_ts))
    /\ ~includes(fnResult.changes, FileHeader(Path_gone))

\* AI_MODEL, else <PROVIDER>_MODEL, else the default of the backend
ResolvedModel ==
    IF env.vars["AI_MODEL"] # <<>> THEN env.vars["AI_MODEL"]
    ELSE IF env.vars[ProviderModelVar(toUpperCase(thisProvider))] # <<>>
      THEN env.vars[ProviderModelVar(toUpperCase(thisProvider))]
    ELSE AI_PROVIDERS[toUpperCase(thisProvider)].model

\* C30: the model resolved at start-up is the model the request names,
\* whatever the backend, and it is the model of the cache key and of the
\* cache record.
C30_ResolvedModelEverywhere ==
    (pc # "none" /\ requests # <<>>) =>
        /\ thisModel = ResolvedModel
        /\ requests[1].model = thisModel
        /\ cacheKey = getCacheKey(runChanges, thisProvider, thisModel)
        /\ cacheKey \in DOMAIN cache => cache[cacheKey].model = thisModel

====
